---- MODULE Spec2Model ----
(***************************************************************************)
(* Verification model of eflips-ingest: the VDV 451/452 ingestion pipeline *)
(* (src/eflips/ingest/vdv.py) and the stop-time reconcilers of the GTFS    *)
(* and BVG-XML pipelines.                                                  *)
(*                                                                         *)
(* Time values are Python datetime/timedelta values, which have a          *)
(* resolution of one microsecond: every instant and duration below is an   *)
(* integer number of microseconds.  Sequences are 1-based, so the Python   *)
(* index i is the index i+1 here.                                          *)
(***************************************************************************)
EXTENDS Integers, Sequences, FiniteSets, Bags, TLC

VARIABLES
    \* ---- one trip through build / reconcile / add (SpecTrip) ----
    pipeline,        \* "vdv" | "gtfs" | "xml"
    local_midnight,  \* the calendar date's local midnight (VDV)
    frt_start,       \* rec_frt.frt_start, offset of the trip from midnight (VDV)
    sel_fzt,         \* driving duration of each segment of the route, d_1..d_n
    hzt,             \* resolved dwell duration at each place, w_0..w_n
    tpc,             \* "input" | "built" | "added" | "reconciled" | "raised"
    trip,            \* the Trip built (departure_time, arrival_time)
    built_stop_times,\* the StopTime list before reconciliation
    stop_times,      \* the StopTime list as it is now
    \* ---- prepare / validation of a VDV archive (SpecValidate) ----
    zip_opens,       \* whether ZipFile() can read the archive
    zip_entries,     \* the archive's entries, in the order the directory is listed
    vpc,             \* "start" | "prepared" | "rejected" | "prepare_raised" |
                     \* "ingest_decoded" | "ingest_failed"
    prepare_result,  \* what VdvIngester.prepare returned
    all_tables_pkl,  \* the pickled table set, or NoTables
    decoded,         \* the tables import_vdv452_table_records has decoded
    \* ---- VdvIngester.ingest against the database (SpecIngest) ----
    rec_umlauf,      \* REC_UMLAUF rows: set of <<basis_version, tagesart_nr, um_uid>>
    firmenkalender,  \* FIRMENKALENDER rows: sequence of [betriebstag, tagesart_nr]
    rec_frt,         \* REC_FRT rows: sequence of scheduled trips
    db0,             \* the database before ingest
    db,              \* the committed database
    session,         \* the session's pending change-set
    deleted,         \* rotations the cleanup pass has marked for deletion
    ipc,             \* position of ingest
    frt_idx,         \* number of REC_FRT rows assembled so far
    rotations_by_vdv_pk_and_date, \* the dated rotations created so far, by key
    error,           \* the exception ingest is propagating, or None
    \* ---- the scenario an ingester works in (SpecScenario) ----
    ingester,        \* "dummy" | "vdv" | "gtfs"
    scn_db0,         \* the database before ingest(uuid)
    scn_db,          \* the database after it
    scn_pc,          \* "start" | "returned" | "raised"
    scn_scenario,    \* the scenario ingest attached its objects to
    \* ---- the header check of one .x10 file (SpecHeader) ----
    hdr_lines,       \* the lines of the file
    hdr_pc,          \* "start" | "returned" | "raised"
    hdr_result,      \* what check_vdv451_file_header gave
    \* ---- decoding the records of one table (SpecDecode) ----
    dec_frm,         \* the format strings of the frm line
    dec_rows,        \* the rows of the file after the header
    dec_pc,          \* "start" | "returned" | "raised"
    dec_records,     \* the records import_vdv452_table_records returned
    \* ---- assembling the routes of a scenario (SpecRoute) ----
    rte_pipeline,    \* "xml" | "bvgxml" | "vdv": which network assembler runs
    rte_routes,      \* the Routes of the scenario in the session, as a bag
    rte_candidate,   \* the Line Variant assembled last
    rte_ref,         \* the Route later references to that variant use
    rte_pc,          \* "assembling" | "raised"
    \* ---- progress reporting and the dummy ingester (SpecProgress) ----
    prg_ingester,    \* "Dummy" | "GTFS" | "VDV": the ingester that runs
    prg_callback,    \* whether a progress_callback is passed to prepare/ingest
    prg_params,      \* the keyword arguments of DummyIngester.prepare, len(trips_df)
    prg_run,         \* "prepare" | "ingest": the call the reported values belong to
    prg_pc,          \* "start" | "invalid" | "prepared" | "creating" | "stage" | "returned" | "raised"
    prg_loop,        \* [i, j, k]: loop variables of DummyIngester.ingest
    prg_gtfs,        \* [stage, trip_idx, current_progress] of GtfsIngester.ingest
    prg_reported,    \* values passed to progress_callback in this run, in call order
    prg_scenarios,   \* Scenario rows of the database: [id, task_id]
    prg_scenario,    \* id of the scenario the ingest writes to (0: none yet)
    prg_session,     \* Rotations added to the session, not yet committed
    prg_db,          \* [before, now]: committed Rotation rows at call time and now
    \* ---- the table of dataset versions (SpecVersion) ----
    ver_dict_list,   \* decoded rows of BASIS_VER_GUELTIGKEIT
    ver_today,       \* the current date
    ver_pc,          \* "start" | "returned" | "raised"
    ver_objects,     \* the objects import_vdv452_table_records returned
    \* ---- driving and dwell durations of one segment of a trip (SpecDurations) ----
    lkp_sel_fzt_felds,  \* SEL_FZT_FELD rows of the segment's relaxed key, in file order
    lkp_rec_frt_hzts,   \* REC_FRT_HZT rows
    lkp_ort_hztfs,      \* ORT_HZTF rows
    lkp_pc,             \* "start" | "driving" | "dwell" | "done" | "raised"
    lkp_driving,        \* driving_duration of the segment, in seconds (-1: none yet)
    lkp_dwell,          \* dwell_duration at the segment's destination (-1: none yet)
    lkp_error,          \* "" | "AssertionError" | "KeyError" | "ValueError"
    \* ---- the GTFS import with and without always_flush (SpecFlush) ----
    gtf_trips_df,       \* rows of trips.txt: [trip_id, service_id, block_id, dates]
    gtf_block_column,   \* whether trips.txt has a block_id column
    gtf_pc,             \* "start" | "rotations" | "trips" | "cleanup" | "commit" | "committed"
    gtf_next,           \* [trip, date]: position of the loops over trips_df and dates
    gtf_rotations_dict, \* by always_flush: rotation key -> Rotation
    gtf_session,        \* by always_flush: [new, persistent, deleted] objects of the session
    gtf_database        \* by always_flush: the committed objects

tripVars == <<pipeline, local_midnight, frt_start, sel_fzt, hzt, tpc, trip,
              built_stop_times, stop_times>>
valVars == <<zip_opens, zip_entries, vpc, prepare_result, all_tables_pkl, decoded>>
ingVars == <<rec_umlauf, firmenkalender, rec_frt, db0, db, session, deleted, ipc,
             frt_idx, rotations_by_vdv_pk_and_date, error>>
scnVars == <<ingester, scn_db0, scn_db, scn_pc, scn_scenario>>
hdrVars == <<hdr_lines, hdr_pc, hdr_result>>
decVars == <<dec_frm, dec_rows, dec_pc, dec_records>>
rteVars == <<rte_pipeline, rte_routes, rte_candidate, rte_ref, rte_pc>>
prgVars == <<prg_ingester, prg_callback, prg_params, prg_run, prg_pc, prg_loop,
             prg_gtfs, prg_reported, prg_scenarios, prg_scenario, prg_session, prg_db>>
verVars == <<ver_dict_list, ver_today, ver_pc, ver_objects>>
lkpVars == <<lkp_sel_fzt_felds, lkp_rec_frt_hzts, lkp_ort_hztfs, lkp_pc, lkp_driving, lkp_dwell, lkp_error>>
gtfVars == <<gtf_trips_df, gtf_block_column, gtf_pc, gtf_next, gtf_rotations_dict, gtf_session, gtf_database>>
vars == <<tripVars, valVars, ingVars, scnVars, hdrVars, decVars, rteVars, prgVars, verVars, lkpVars, gtfVars>>

\* What the steps of one part of the model leave alone.
exceptTrip == <<valVars, ingVars, scnVars, hdrVars, decVars, rteVars, prgVars, verVars, lkpVars, gtfVars>>
exceptVal == <<tripVars, ingVars, scnVars, hdrVars, decVars, rteVars, prgVars, verVars, lkpVars, gtfVars>>
exceptIng == <<tripVars, valVars, scnVars, hdrVars, decVars, rteVars, prgVars, verVars, lkpVars, gtfVars>>
exceptScn == <<tripVars, valVars, ingVars, hdrVars, decVars, rteVars, prgVars, verVars, lkpVars, gtfVars>>
exceptHdr == <<tripVars, valVars, ingVars, scnVars, decVars, rteVars, prgVars, verVars, lkpVars, gtfVars>>
exceptDec == <<tripVars, valVars, ingVars, scnVars, hdrVars, rteVars, prgVars, verVars, lkpVars, gtfVars>>
exceptRte == <<tripVars, valVars, ingVars, scnVars, hdrVars, decVars, prgVars, verVars, lkpVars, gtfVars>>
exceptPrg == <<tripVars, valVars, ingVars, scnVars, hdrVars, decVars, rteVars, verVars, lkpVars, gtfVars>>

exceptVer == <<tripVars, valVars, ingVars, scnVars, hdrVars, decVars, rteVars, prgVars, lkpVars, gtfVars>>
exceptLkp == <<tripVars, valVars, ingVars, scnVars, hdrVars, decVars, rteVars, prgVars, verVars, gtfVars>>
exceptGtf == <<tripVars, valVars, ingVars, scnVars, hdrVars, decVars, rteVars, prgVars, verVars, lkpVars>>

(***************************************************************************)
(* Generic helpers                                                         *)
(***************************************************************************)
Second == 1000 * 1000

Min(a, b) == IF a <= b THEN a ELSE b

Indices(n) == [k \in 1..n |-> k]

RECURSIVE SumTo(_, _)
SumTo(s, k) == IF k = 0 THEN 0 ELSE s[k] + SumTo(s, k - 1)

\* timedelta / int: Python divides the microseconds and rounds half to even.
TimedeltaDiv(a, b) ==
    LET q == a \div b
        r == a % b
    IN IF 2 * r > b \/ (2 * r = b /\ q % 2 = 1) THEN q + 1 ELSE q

StopTime(arrival, dwell) == [arrival_time |-> arrival, dwell_duration |-> dwell]

\* The positions of stop_times whose arrival time is t, ascending.
IndicesOfArrival(st, t) ==
    SelectSeq(Indices(Len(st)), LAMBDA j : st[j].arrival_time = t)

PosIn(idxs, k) == CHOOSE p \in 1..Len(idxs) : idxs[p] = k

InSeq(idxs, k) == \E p \in 1..Len(idxs) : idxs[p] = k

(***************************************************************************)
(* VDV: fix_identical_stop_times (vdv.py)                                  *)
(***************************************************************************)
DefaultDiff == 60 * Second

\* One group of identical arrival times, given by its positions idxs: the
\* group is spread over the smaller of the gaps before and after it, and, when
\* it ends at the last stop, shifted back so that the last stop keeps its time.
SpreadGroupKeepingLast(st, idxs) ==
    LET n == Len(idxs)
        first == idxs[1]
        last == idxs[n]
        diff_before == IF first # 1
                       THEN st[first].arrival_time - st[first - 1].arrival_time
                       ELSE DefaultDiff
        diff_after == IF last # Len(st)
                      THEN st[last + 1].arrival_time - st[last].arrival_time
                      ELSE DefaultDiff
        offset == TimedeltaDiv(Min(diff_before, diff_after), n)
        max_offset == (n - 1) * offset
        spread == [k \in 1..Len(st) |->
                     IF InSeq(idxs, k)
                     THEN [st[k] EXCEPT !.arrival_time = @ + (PosIn(idxs, k) - 1) * offset]
                     ELSE st[k]]
    IN IF last = Len(st)
       THEN [k \in 1..Len(st) |->
               IF InSeq(idxs, k)
               THEN [spread[k] EXCEPT !.arrival_time = @ - max_offset]
               ELSE spread[k]]
       ELSE spread

\* The same without the correction for a group that ends at the last stop.
SpreadGroupForwardOnly(st, idxs) ==
    LET n == Len(idxs)
        first == idxs[1]
        last == idxs[n]
        diff_before == IF first # 1
                       THEN st[first].arrival_time - st[first - 1].arrival_time
                       ELSE DefaultDiff
        diff_after == IF last # Len(st)
                      THEN st[last + 1].arrival_time - st[last].arrival_time
                      ELSE DefaultDiff
        offset == TimedeltaDiv(Min(diff_before, diff_after), n)
    IN [k \in 1..Len(st) |->
          IF InSeq(idxs, k)
          THEN [st[k] EXCEPT !.arrival_time = @ + (PosIn(idxs, k) - 1) * offset]
          ELSE st[k]]

SpreadGroup(st, idxs) == SpreadGroupKeepingLast(st, idxs)

\* The groups are the entries of a dict keyed by the arrival times the list had
\* on entry, so they are visited in the order of their first position; each
\* visit reads the list as the earlier visits left it.
RECURSIVE FixGroupsFrom(_, _, _)
FixGroupsFrom(st, orig, i) ==
    IF i > Len(orig) THEN st
    ELSE LET g == IndicesOfArrival(orig, orig[i].arrival_time)
         IN IF g[1] = i /\ Len(g) > 1
            THEN FixGroupsFrom(SpreadGroup(st, g), orig, i + 1)
            ELSE FixGroupsFrom(st, orig, i + 1)

fix_identical_stop_times(st) == FixGroupsFrom(st, st, 1)

(***************************************************************************)
(* GTFS: GtfsIngester.stagger_simultaneous_stop_times (gtfs.py)            *)
(***************************************************************************)
\* sorted(..., key=arrival_time): a stable sort.
RECURSIVE InsertByArrival(_, _)
InsertByArrival(sorted, x) ==
    IF sorted = <<>> THEN <<x>>
    ELSE IF sorted[Len(sorted)].arrival_time <= x.arrival_time
         THEN Append(sorted, x)
         ELSE Append(InsertByArrival(SubSeq(sorted, 1, Len(sorted) - 1), x),
                     sorted[Len(sorted)])

RECURSIVE SortedByArrival(_)
SortedByArrival(st) ==
    IF st = <<>> THEN <<>>
    ELSE InsertByArrival(SortedByArrival(SubSeq(st, 1, Len(st) - 1)), st[Len(st)])

\* The new arrival time of position k of the sorted list.  Each group is
\* rewritten from its own key alone, so the groups do not read each other.
StaggeredArrival(s, k) ==
    LET arrival_time == s[k].arrival_time
        indices == IndicesOfArrival(s, arrival_time)
        n == Len(indices)
        p == PosIn(indices, k)
        has_first == InSeq(indices, 1)
        has_last == InSeq(indices, Len(s))
    IN IF n <= 1 THEN arrival_time
       ELSE IF has_last /\ ~has_first
            THEN IF p = n THEN arrival_time ELSE arrival_time - (n - p) * Second
       ELSE IF has_first /\ ~has_last
            THEN arrival_time + (p - 1) * Second
       ELSE IF has_first /\ has_last
            THEN IF k = 1 \/ k = Len(s) THEN arrival_time
                 ELSE arrival_time + (p - 1) * Second
       ELSE arrival_time + (p - 1) * Second

stagger_simultaneous_stop_times(stop_times_to_add) ==
    IF Len(stop_times_to_add) <= 2 THEN stop_times_to_add
    ELSE LET s == SortedByArrival(stop_times_to_add)
         IN [k \in 1..Len(s) |-> [s[k] EXCEPT !.arrival_time = StaggeredArrival(s, k)]]

(***************************************************************************)
(* BVG-XML: fix_times and its caller (legacy/bvgxml.py).  A time profile   *)
(* point is a StopTime record here: arrival_time is its                    *)
(* arrival_offset_from_start.                                              *)
(***************************************************************************)
Raised == [raised |-> TRUE, points |-> <<>>]
Returned(p) == [raised |-> FALSE, points |-> p]

SortedNonStrict(p) ==
    \A i \in 1..(Len(p) - 1) : p[i].arrival_time <= p[i + 1].arrival_time

StrictlyIncreasing(p) ==
    \A i \in 1..(Len(p) - 1) : p[i].arrival_time < p[i + 1].arrival_time

RECURSIVE FixTimesLoop(_, _, _, _)
FixTimesLoop(p, i, last_arrival_offset, current_increment) ==
    IF i > Len(p) THEN p
    ELSE LET cur == p[i].arrival_time
         IN IF i > 1 /\ cur = last_arrival_offset
            THEN LET inc == current_increment + 1
                     p2 == [p EXCEPT ![i].arrival_time = @ + inc * Second]
                     p3 == IF i = Len(p)
                           THEN [j \in 1..Len(p2) |->
                                   IF j \in (i - inc)..i
                                   THEN [p2[j] EXCEPT !.arrival_time = @ - inc * Second]
                                   ELSE p2[j]]
                           ELSE p2
                 IN FixTimesLoop(p3, i + 1, cur, inc)
            ELSE FixTimesLoop(p, i + 1, cur, 0)

fix_times(points) ==
    IF ~SortedNonStrict(points) THEN Raised
    ELSE LET p == FixTimesLoop(points, 1, 0, 0)
         IN IF ~StrictlyIncreasing(p) THEN Raised
            ELSE IF p[Len(p)].arrival_time % (60 * Second) # 0 THEN Raised
            ELSE Returned(p)

\* The caller's loop over one time profile: fix_times is called at each point
\* that does not come strictly after the previous point's departure.
RECURSIVE CheckTimeProfileFrom(_, _, _)
CheckTimeProfileFrom(p, i, last_time) ==
    IF i > Len(p) THEN Returned(p)
    ELSE IF i > 1 /\ ~(p[i].arrival_time > last_time)
         THEN LET r == fix_times(p)
              IN IF r.raised THEN Raised
                 ELSE CheckTimeProfileFrom(r.points, i + 1,
                          r.points[i].arrival_time + r.points[i].dwell_duration)
         ELSE CheckTimeProfileFrom(p, i + 1, p[i].arrival_time + p[i].dwell_duration)

check_time_profile(points) ==
    IF Len(points) < 2 THEN Raised ELSE CheckTimeProfileFrom(points, 1, 0)

(***************************************************************************)
(* VDV: the timing of one scheduled trip (VdvIngester.ingest)              *)
(***************************************************************************)
\* The loop over the route's segments.  d[i] is the driving duration of
\* segment i, w[i] the dwell duration resolved for place i-1 (w[1] belongs to
\* the first place).  acc is (elapsed_duration, arrival_time_from_start,
\* dwell_durations).
RECURSIVE AccumulateArrivalFirst(_, _, _, _)
AccumulateArrivalFirst(d, w, i, acc) ==
    IF i > Len(d) THEN acc
    ELSE LET a0 == IF i = 1
                   THEN [elapsed_duration |-> acc.elapsed_duration + w[1],
                         arrival_time_from_start |->
                             Append(acc.arrival_time_from_start, acc.elapsed_duration),
                         dwell_durations |-> Append(acc.dwell_durations, w[1])]
                   ELSE acc
             driven == a0.elapsed_duration + d[i]
         IN AccumulateArrivalFirst(d, w, i + 1,
                [elapsed_duration |-> driven + w[i + 1],
                 arrival_time_from_start |-> Append(a0.arrival_time_from_start, driven),
                 dwell_durations |-> Append(a0.dwell_durations, w[i + 1])])

\* The same with the arrival recorded after the dwell was added.
RECURSIVE AccumulateDwellFirst(_, _, _, _)
AccumulateDwellFirst(d, w, i, acc) ==
    IF i > Len(d) THEN acc
    ELSE LET a0 == IF i = 1
                   THEN [elapsed_duration |-> acc.elapsed_duration + w[1],
                         arrival_time_from_start |->
                             Append(acc.arrival_time_from_start, acc.elapsed_duration),
                         dwell_durations |-> Append(acc.dwell_durations, w[1])]
                   ELSE acc
             stayed == a0.elapsed_duration + d[i] + w[i + 1]
         IN AccumulateDwellFirst(d, w, i + 1,
                [elapsed_duration |-> stayed,
                 arrival_time_from_start |-> Append(a0.arrival_time_from_start, stayed),
                 dwell_durations |-> Append(a0.dwell_durations, w[i + 1])])

AccumulateDurations(d, w, i, acc) == AccumulateArrivalFirst(d, w, i, acc)

ElapsedDurations(start, d, w) ==
    AccumulateDurations(d, w, 1,
        [elapsed_duration |-> start, arrival_time_from_start |-> <<>>,
         dwell_durations |-> <<>>])

\* len(route.assoc_route_stations): RecLid.to_route gives the route one
\* station entry per place of the line variant, one more than its segments.
NumAssocRouteStations(num_rec_sels) == num_rec_sels + 1

NoTrip == [departure_time |-> -1, arrival_time |-> -1]

\* The Trip and its StopTimes for one calendar date, or the ValueError for a
\* trip of zero duration.
BuildTrip(midnight, start, d, w) ==
    LET e == ElapsedDurations(start, d, w)
    IN IF start # e.elapsed_duration
       THEN [raised |-> FALSE,
             trip |-> [departure_time |-> midnight + start,
                       arrival_time |-> midnight + e.elapsed_duration],
             stop_times |-> [i \in 1..NumAssocRouteStations(Len(d)) |->
                               StopTime(midnight + e.arrival_time_from_start[i],
                                        e.dwell_durations[i])]]
       ELSE [raised |-> TRUE, trip |-> NoTrip, stop_times |-> <<>>]

(***************************************************************************)
(* One trip through its pipeline's build, reconcile and add steps          *)
(***************************************************************************)
MaxSegments == 3

DrivingDurations == {0, Second, 120 * Second}
DwellDurations == {0, 60 * Second}
StartOffsets == {0, 300 * Second}
Midnights == {0, 600 * Second}

\* The rows of a timetable with driving durations d and dwell durations w, as
\* stop_times.txt (GTFS) or a Fahrzeitprofil (XML) present them.
TimetableRows(d, w) ==
    [k \in 1..Len(w) |->
       [arrival |-> SumTo(d, k - 1) + SumTo(w, k - 1),
        departure |-> SumTo(d, k - 1) + SumTo(w, k)]]

TripInit ==
    /\ pipeline \in {"vdv", "gtfs", "xml"}
    /\ \E n \in 1..MaxSegments :
          /\ sel_fzt \in [1..n -> DrivingDurations]
          /\ hzt \in [1..(n + 1) -> DwellDurations]
    /\ local_midnight \in IF pipeline = "vdv" THEN Midnights ELSE {0}
    /\ frt_start \in IF pipeline = "vdv" THEN StartOffsets ELSE {0}
    /\ tpc = "input"
    /\ trip = NoTrip
    /\ built_stop_times = <<>>
    /\ stop_times = <<>>

\* VDV: the body of the loop over the calendar for one matching date: the
\* trip and its stop times are built, the stop times are reconciled and the
\* trip is added to the session; a trip of zero duration raises.
VdvCreateTrip ==
    /\ pipeline = "vdv" /\ tpc = "input"
    /\ LET b == BuildTrip(local_midnight, frt_start, sel_fzt, hzt)
       IN IF b.raised
          THEN /\ tpc' = "raised"
               /\ UNCHANGED <<trip, built_stop_times, stop_times>>
          ELSE /\ trip' = b.trip
               /\ built_stop_times' = b.stop_times
               /\ stop_times' = fix_identical_stop_times(b.stop_times)
               /\ tpc' = "added"
    /\ UNCHANGED <<pipeline, local_midnight, frt_start, sel_fzt, hzt>>

\* GTFS: the stop times of one trip instance are built from its rows (dwell =
\* departure - arrival), staggered and added to the session.
GtfsAddStopTimes ==
    /\ pipeline = "gtfs" /\ tpc = "input"
    /\ LET rows == TimetableRows(sel_fzt, hzt)
           stop_times_to_add ==
               [k \in 1..Len(rows) |->
                  StopTime(rows[k].arrival, rows[k].departure - rows[k].arrival)]
       IN /\ built_stop_times' = stop_times_to_add
          /\ stop_times' = stagger_simultaneous_stop_times(stop_times_to_add)
    /\ tpc' = "added"
    /\ UNCHANGED <<pipeline, local_midnight, frt_start, sel_fzt, hzt, trip>>

\* XML: the time profile points of one Fahrzeitprofil are checked, and fixed
\* where a point does not come after its predecessor.
XmlCheckTimeProfile ==
    /\ pipeline = "xml" /\ tpc = "input"
    /\ LET rows == TimetableRows(sel_fzt, hzt)
           points == [k \in 1..Len(rows) |->
                        StopTime(rows[k].arrival, rows[k].departure - rows[k].arrival)]
           r == check_time_profile(points)
       IN /\ built_stop_times' = points
          /\ IF r.raised
             THEN tpc' = "raised" /\ UNCHANGED stop_times
             ELSE tpc' = "reconciled" /\ stop_times' = r.points
    /\ UNCHANGED <<pipeline, local_midnight, frt_start, sel_fzt, hzt, trip>>

TripNext ==
    \/ VdvCreateTrip /\ UNCHANGED exceptTrip
    \/ GtfsAddStopTimes /\ UNCHANGED exceptTrip
    \/ XmlCheckTimeProfile /\ UNCHANGED exceptTrip

(***************************************************************************)
(* Claims about one trip's stop times (checked under SpecTrip)             *)
(***************************************************************************)
Reconciled == tpc \in {"added", "reconciled"}

\* arrival[i] + dwell[i] <= arrival[i+1] for all adjacent positions.
DwellFits(st) ==
    \A i \in 1..(Len(st) - 1) :
        st[i].arrival_time + st[i].dwell_duration <= st[i + 1].arrival_time

\* C5: for a trip whose stop times are sorted and satisfy arrival + dwell <=
\* next arrival before reconciliation, after the reconciler of its pipeline has
\* run every adjacent pair satisfies arrival + dwell <= next arrival and
\* arrival < next arrival.
C5_ReconciledTimesOrdered ==
    (Reconciled /\ SortedNonStrict(built_stop_times) /\ DwellFits(built_stop_times))
        => (DwellFits(stop_times) /\ StrictlyIncreasing(stop_times))

\* C6: reconciliation changes the arrival time of the first or of the last
\* stop only when the first and the last stop have the same arrival time, and
\* every arrival time it changes is one that another stop of the trip shares.
C6_BoundariesPreserved ==
    Reconciled =>
        LET a == built_stop_times
            b == stop_times
            n == Len(a)
        IN /\ Len(b) = n
           /\ (a[1].arrival_time # b[1].arrival_time \/ a[n].arrival_time # b[n].arrival_time)
                 => a[1].arrival_time = a[n].arrival_time
           /\ \A k \in 1..n :
                 b[k].arrival_time # a[k].arrival_time
                   => \E j \in (1..n) \ {k} : a[j].arrival_time = a[k].arrival_time

\* A VDV trip whose last stops share an arrival time that the first stop does
\* not have: the earlier duplicate was moved and the last stop kept its time.
C6_Witness ==
    /\ pipeline = "vdv" /\ tpc = "added"
    /\ LET a == built_stop_times
           b == stop_times
           n == Len(a)
       IN /\ n >= 3
          /\ a[n - 1].arrival_time = a[n].arrival_time
          /\ a[1].arrival_time # a[n].arrival_time
          /\ b[n - 1].arrival_time < a[n - 1].arrival_time
          /\ b[n].arrival_time = a[n].arrival_time

\* C7: stop times that are not strictly increasing in arrival time after
\* reconciliation are never added to the session.
C7_NonIncreasingNeverAdded == tpc = "added" => StrictlyIncreasing(stop_times)

\* C8 as stated: every scheduled trip on a matching date yields a Trip
\* departing at M + s and arriving at M + s + sum(d) + sum(w), with exactly
\* n + 1 StopTimes, the one at position k arriving at
\* M + s + (d_1 + ... + d_k) + (w_0 + ... + w_(k-1)) with dwell w_k.
TripTimingAsClaimed ==
    LET n == Len(sel_fzt)
        M == local_midnight
        s == frt_start
    IN /\ trip.departure_time = M + s
       /\ trip.arrival_time = M + s + SumTo(sel_fzt, n) + SumTo(hzt, n + 1)
       /\ Len(built_stop_times) = n + 1
       /\ \A k \in 0..n :
             /\ built_stop_times[k + 1].arrival_time
                    = M + s + SumTo(sel_fzt, k) + SumTo(hzt, k)
             /\ built_stop_times[k + 1].dwell_duration = hzt[k + 1]

C8_EveryTripTimed ==
    (pipeline = "vdv" /\ tpc # "input") => (tpc = "added" /\ TripTimingAsClaimed)

\* C8 as amended: the same for every scheduled trip whose total duration
\* sum(d) + sum(w) is not zero; a trip of zero total duration raises and
\* creates no Trip and no StopTime.
C8_NonZeroTripTimed ==
    (pipeline = "vdv" /\ tpc # "input") =>
        IF SumTo(sel_fzt, Len(sel_fzt)) + SumTo(hzt, Len(hzt)) # 0
        THEN tpc = "added" /\ TripTimingAsClaimed
        ELSE tpc = "raised" /\ trip = NoTrip /\ built_stop_times = <<>>

\* The scenario of the specification: one segment of 120 s, no dwell, start
\* offset 0: departure at midnight, arrival 120 s later, two stop times.
C8_Witness ==
    /\ pipeline = "vdv" /\ tpc = "added"
    /\ sel_fzt = <<120 * Second>> /\ hzt = <<0, 0>> /\ frt_start = 0
    /\ trip = [departure_time |-> local_midnight,
               arrival_time |-> local_midnight + 120 * Second]
    /\ built_stop_times = <<StopTime(local_midnight, 0),
                            StopTime(local_midnight + 120 * Second, 0)>>

(***************************************************************************)
(* VDV: header check of one .x10 file (check_vdv451_file_header)           *)
(*                                                                         *)
(* A file is its sequence of lines; a line is its command and what follows *)
(* it: a name for tbl and chs, a list of names for atr, a list of format   *)
(* strings for frm, nothing for rec, mod and eof.  A tbl or chs line that   *)
(* ends after its command has NoField after it.                            *)
(***************************************************************************)
VDV_Table_Name ==
    {"MENGE_BASIS_VERSIONEN", "BASIS_VER_GUELTIGKEIT", "FIRMENKALENDER",
     "MENGE_TAGESART", "MENGE_ONR_TYP", "MENGE_ORT_TYP", "REC_HP", "REC_OM",
     "REC_ORT", "FAHRZEUG", "ZUL_VERKEHRSBETRIEB", "MENGE_BEREICH",
     "MENGE_FZG_TYP", "REC_ANR", "REC_ZNR", "REC_SEL", "REC_SEL_ZP", "MENGE_FGR",
     "ORT_HZTF", "SEL_FZT_FELD", "REC_UEB", "UEB_FZT", "MENGE_FAHRTART",
     "LID_VERLAUF", "REC_LID", "REC_FRT", "REC_FRT_HZT", "REC_UMLAUF"}

required_tables_all ==
    {"BASIS_VER_GUELTIGKEIT", "FIRMENKALENDER", "REC_ORT", "MENGE_FZG_TYP",
     "REC_SEL", "SEL_FZT_FELD", "LID_VERLAUF", "REC_FRT", "REC_UMLAUF", "REC_LID"}

\* The same with REC_LID forgotten.
required_tables_without_rec_lid == required_tables_all \ {"REC_LID"}

required_tables == required_tables_all

valid_character_sets == {"ASCII", "ISO8859-1"}

None == "None"

\* str.upper() on the strings that occur in the files of the model.
Upper(str) ==
    CASE str = "ascii" -> "ASCII"
      [] str = "iso8859-1" -> "ISO8859-1"
      [] str = "iso-8859-1" -> "ISO-8859-1"
      [] str = "rec_frt" -> "REC_FRT"
      [] str = "frt_fid" -> "FRT_FID"
      [] OTHER -> str

\* The characters of the format strings that occur in the files of the model.
Chars(str) ==
    CASE str = "char[40]" -> <<"c", "h", "a", "r", "[", "4", "0", "]">>
      [] str = "num[9.0]" -> <<"n", "u", "m", "[", "9", ".", "0", "]">>
      [] str = " num[9.0]" -> <<" ", "n", "u", "m", "[", "9", ".", "0", "]">>
      [] str = "num[2.4]" -> <<"n", "u", "m", "[", "2", ".", "4", "]">>
      [] str = "num[9.00]" -> <<"n", "u", "m", "[", "9", ".", "0", "0", "]">>
      [] str = "num[100]" -> <<"n", "u", "m", "[", "1", "0", "0", "]">>
      [] str = "float" -> <<"f", "l", "o", "a", "t">>

IsDigit(ch) == ch \in {"0", "1", "2", "3", "4", "5", "6", "7", "8", "9"}

\* c[i..j] consists of digits, and of at least one.
Digits(c, i, j) == i <= j /\ j <= Len(c) /\ \A k \in i..j : IsDigit(c[k])

HasPrefix(c, prefix) ==
    Len(c) >= Len(prefix) /\ SubSeq(c, 1, Len(prefix)) = prefix

\* str.lstrip() and str.strip() for blanks.
RECURSIVE LStrip(_)
LStrip(c) == IF c # <<>> /\ Head(c) = " " THEN LStrip(Tail(c)) ELSE c

RECURSIVE RStrip(_)
RStrip(c) ==
    IF c # <<>> /\ c[Len(c)] = " " THEN RStrip(SubSeq(c, 1, Len(c) - 1)) ELSE c

Strip(c) == RStrip(LStrip(c))

\* re.match of char\[[0-9]+\] at the start of c.
regex_for_char(c) ==
    /\ HasPrefix(c, <<"c", "h", "a", "r", "[">>)
    /\ \E j \in 6..Len(c) : Digits(c, 6, j) /\ j + 1 <= Len(c) /\ c[j + 1] = "]"

\* re.match of num\[[0-9]+.0\] at the start of c: the dot of the pattern
\* stands for any character.
regex_for_int(c) ==
    /\ HasPrefix(c, <<"n", "u", "m", "[">>)
    /\ \E j \in 5..Len(c) :
          /\ Digits(c, 5, j) /\ j + 3 <= Len(c)
          /\ c[j + 2] = "0" /\ c[j + 3] = "]"

\* re.match of num\[[0-9]+.[0-9]+\] at the start of c.
regex_for_float(c) ==
    /\ HasPrefix(c, <<"n", "u", "m", "[">>)
    /\ \E j \in 5..Len(c) :
          /\ Digits(c, 5, j)
          /\ \E k \in (j + 2)..Len(c) :
                Digits(c, j + 2, k) /\ k + 1 <= Len(c) /\ c[k + 1] = "]"

\* One format string: what its leading-blank-stripped characters match.
MatchDatatype(part) ==
    LET c == LStrip(Chars(part))
    IN IF ~(regex_for_char(c) \/ regex_for_float(c)) THEN None
       ELSE IF regex_for_char(c) THEN "CHAR"
       ELSE IF regex_for_int(c) THEN "INT"
       ELSE "FLOAT"

\* The data types of the format strings of the model, as MatchDatatype
\* gives them.
ParseDatatype(part) ==
    CASE part = "char[40]" -> "CHAR"
      [] part = "num[9.0]" -> "INT"
      [] part = " num[9.0]" -> "INT"
      [] part = "num[2.4]" -> "FLOAT"
      [] part = "num[9.00]" -> "FLOAT"
      [] part = "num[100]" -> "INT"
      [] part = "float" -> None

parse_datatypes(datatype_str) ==
    [i \in 1..Len(datatype_str) |-> ParseDatatype(datatype_str[i])]

\* What follows the command of a line without any ";": parts has one element.
NoField == "<no field>"

HeaderStart ==
    [table_name_str |-> None, character_set |-> None,
     has_datatypes |-> FALSE, datatypes |-> <<>>,
     has_column_names |-> FALSE, column_names |-> <<>>,
     raised |-> FALSE, exception |-> None]

\* raise of an exception inside the loop.
HeaderRaise(h, exception) == [h EXCEPT !.raised = TRUE, !.exception = exception]

\* The loop over the lines: it ends at the first rec line that follows both a
\* tbl and a chs line, at a raise, or with the file.  parts[1] of a tbl or chs
\* line without a field raises IndexError.
RECURSIVE ScanHeader(_, _, _)
ScanHeader(lines, i, h) ==
    IF i > Len(lines) THEN h
    ELSE LET command == lines[i].command
             arg == lines[i].arg
         IN CASE command = "tbl" ->
                   IF arg = NoField THEN HeaderRaise(h, "IndexError")
                   ELSE ScanHeader(lines, i + 1, [h EXCEPT !.table_name_str = Upper(arg)])
              [] command = "chs" ->
                   IF arg = NoField THEN HeaderRaise(h, "IndexError")
                   ELSE
                   LET cs == IF Upper(arg) = "ISO-8859-1" THEN "ISO8859-1" ELSE Upper(arg)
                   IN IF cs \notin valid_character_sets
                      THEN HeaderRaise([h EXCEPT !.character_set = cs], "ValueError")
                      ELSE ScanHeader(lines, i + 1, [h EXCEPT !.character_set = cs])
              [] command = "frm" ->
                   ScanHeader(lines, i + 1,
                       [h EXCEPT !.has_datatypes = TRUE, !.datatypes = parse_datatypes(arg)])
              [] command = "atr" ->
                   ScanHeader(lines, i + 1,
                       [h EXCEPT !.has_column_names = TRUE,
                                 !.column_names = [k \in 1..Len(arg) |-> Upper(arg[k])]])
              [] command = "rec" ->
                   IF h.table_name_str # None /\ h.character_set # None
                   THEN h
                   ELSE ScanHeader(lines, i + 1, h)
              [] command = "eof" -> HeaderRaise(h, "ValueError")
              [] OTHER -> ScanHeader(lines, i + 1, h)

NoTable == [abs_file_path |-> <<>>, character_set |-> None, table_name |-> None,
            column_names_and_data_types |-> <<>>]

\* The VDVTable of the file, or the exception: the one of the loop, or the
\* ValueError of the checks after it.
check_vdv451_file_header(file) ==
    LET h == ScanHeader(file.lines, 1, HeaderStart)
    IN IF h.raised
       THEN [raised |-> TRUE, exception |-> h.exception, table |-> NoTable]
       ELSE
       IF \/ h.table_name_str = None
          \/ h.character_set = None
          \/ ~h.has_datatypes
          \/ h.table_name_str \notin VDV_Table_Name
          \/ ~h.has_column_names
          \/ Len(h.column_names) # Len(h.datatypes)
       THEN [raised |-> TRUE, exception |-> "ValueError", table |-> NoTable]
       ELSE [raised |-> FALSE, exception |-> None,
             table |-> [abs_file_path |-> file.filename,
                        character_set |-> h.character_set,
                        table_name |-> h.table_name_str,
                        column_names_and_data_types |->
                            [k \in 1..Len(h.column_names) |->
                               <<h.column_names[k], h.datatypes[k]>>]]]

(***************************************************************************)
(* VDV: validate_zip_file, validate_input_data_vdv_451, prepare            *)
(***************************************************************************)
MaxFileSize == 100 * 1024 * 1024

IsX10(filename) == filename[2] \in {".x10", ".X10"}

\* What validate_zip_file returns when ZipFile() raises: the message of the
\* exception under the name "zipfile".
ZipFileError == {<<<<"zipfile", "">>, "File is not a zip file">>}

\* The error messages by entry name; the archive is valid when there are none.
validate_zip_file(entries) ==
    {<<entries[i].filename,
       IF IsX10(entries[i].filename) /\ ~entries[i].is_dir
       THEN IF entries[i].file_size = 0 THEN "Empty file"
            ELSE "File size exceeds 100 MiB"
       ELSE "Invalid file extension or is a directory">> :
        i \in {j \in 1..Len(entries) :
                 \/ ~(IsX10(entries[j].filename) /\ ~entries[j].is_dir)
                 \/ entries[j].file_size = 0
                 \/ entries[j].file_size > MaxFileSize}}

\* The loop over the .x10 files of the directory, in the order files lists
\* them.  A file whose header check raises ValueError is skipped; so is a file
\* whose table is already in all_tables, because the ValueError raised for it
\* is caught by the same except clause.  Another exception leaves the loop.
RECURSIVE CollectTables(_, _, _)
CollectTables(files, i, all_tables) ==
    IF i > Len(files) THEN [exception |-> None, all_tables |-> all_tables]
    ELSE LET r == check_vdv451_file_header(files[i])
         IN IF r.raised /\ r.exception \notin {"ValueError", "UnicodeDecodeError"}
            THEN [exception |-> r.exception, all_tables |-> all_tables]
            ELSE IF r.raised
            THEN CollectTables(files, i + 1, all_tables)
            ELSE IF r.table.table_name \in DOMAIN all_tables
                 THEN CollectTables(files, i + 1, all_tables)
                 ELSE CollectTables(files, i + 1,
                          all_tables @@ (r.table.table_name :> r.table))

NoTables == <<>>

\* The check of the two dwell-time tables: the error, or None.
DwellTablesBothOrNeither(names) ==
    IF "REC_FRT_HZT" \in names /\ "ORT_HZTF" \in names THEN "both"
    ELSE IF "REC_FRT_HZT" \notin names /\ "ORT_HZTF" \notin names THEN "neither"
    ELSE None

\* The same without the check for neither table.
DwellTablesBothOnly(names) ==
    IF "REC_FRT_HZT" \in names /\ "ORT_HZTF" \in names THEN "both" ELSE None

DwellTablesError(names) == DwellTablesBothOrNeither(names)

ValidationError(kind, tables) == [raised |-> TRUE, kind |-> kind, tables |-> tables,
                                  all_tables |-> NoTables]

validate_input_data_vdv_451(files) ==
    LET x10_files == SelectSeq(files, LAMBDA f : IsX10(f.filename) /\ ~f.is_dir)
        collected == CollectTables(x10_files, 1, <<>>)
        all_tables == collected.all_tables
    IN IF collected.exception # None
       THEN ValidationError(collected.exception, {})
       ELSE
       IF ~(required_tables \subseteq DOMAIN all_tables)
       THEN ValidationError("missing", required_tables \ DOMAIN all_tables)
       ELSE IF DwellTablesError(DOMAIN all_tables) # None
            THEN ValidationError(DwellTablesError(DOMAIN all_tables), {})
            ELSE [raised |-> FALSE, kind |-> None, tables |-> {},
                  all_tables |-> all_tables]

(***************************************************************************)
(* VdvIngester.prepare and the decoding step of VdvIngester.ingest         *)
(***************************************************************************)
MaxExtraFiles == 3

Line(command, arg) == [command |-> command, arg |-> arg]

\* A file with a complete header and one record.
TableLines(tbl, chs, atr, frm) ==
    <<Line("tbl", tbl), Line("chs", chs), Line("atr", atr), Line("frm", frm),
      Line("rec", <<>>), Line("eof", <<>>)>>

\* A file with a complete header whose eof line comes before any rec line.
EmptyTableLines(tbl, chs, atr, frm) ==
    <<Line("tbl", tbl), Line("chs", chs), Line("atr", atr), Line("frm", frm),
      Line("eof", <<>>)>>

Entry(stem, suffix, size, lines) ==
    [filename |-> <<stem, suffix>>, is_dir |-> FALSE, file_size |-> size,
     lines |-> lines]

\* One file for each required table, in the order the directory lists them.
RequiredFiles ==
    <<Entry("basis_ver_gueltigkeit", ".x10", 1,
            TableLines("BASIS_VER_GUELTIGKEIT", "ASCII", <<"BASIS_VERSION">>, <<"num[9.0]">>)),
      Entry("firmenkalender", ".x10", 1,
            TableLines("FIRMENKALENDER", "ASCII", <<"BETRIEBSTAG">>, <<"num[9.0]">>)),
      Entry("rec_ort", ".X10", 1,
            TableLines("REC_ORT", "iso-8859-1", <<"ORT_NR", "ORT_NAME">>, <<"num[9.0]", "char[40]">>)),
      Entry("menge_fzg_typ", ".x10", 1,
            TableLines("MENGE_FZG_TYP", "ISO8859-1", <<"FZG_TYP_NR">>, <<"num[9.0]">>)),
      Entry("rec_sel", ".x10", 1,
            TableLines("REC_SEL", "ASCII", <<"SEL_LAENGE">>, <<"num[2.4]">>)),
      Entry("sel_fzt_feld", ".x10", 1,
            TableLines("SEL_FZT_FELD", "ascii", <<"SEL_FZT">>, <<"num[9.0]">>)),
      Entry("lid_verlauf", ".x10", 1,
            TableLines("LID_VERLAUF", "ASCII", <<"LI_LFD_NR">>, <<"num[9.0]">>)),
      Entry("rec_frt", ".x10", 1,
            TableLines("rec_frt", "ASCII", <<"frt_fid">>, <<"num[9.0]">>)),
      Entry("rec_umlauf", ".x10", 1,
            TableLines("REC_UMLAUF", "ASCII", <<"UM_UID">>, <<"num[9.0]">>)),
      Entry("rec_lid", ".x10", 1,
            TableLines("REC_LID", "ASCII", <<"LI_NR">>, <<"num[9.0]">>))>>

\* The required tables whose file the archive may lack.
MissableTables == {"FIRMENKALENDER", "REC_FRT", "REC_LID"}

\* Further entries an archive may hold: the two dwell-time tables, second
\* files for REC_FRT and ORT_HZTF, an ORT_HZTF file without records, an entry
\* that is no .x10 file and an .x10 file of size zero.
ExtraFiles ==
    {Entry("rec_frt_hzt", ".x10", 1,
           TableLines("REC_FRT_HZT", "ASCII", <<"FRT_HZT_ZEIT">>, <<"num[9.0]">>)),
     Entry("ort_hztf", ".x10", 1,
           TableLines("ORT_HZTF", "ASCII", <<"HP_HZT">>, <<"num[9.0]">>)),
     Entry("rec_frt_2", ".x10", 1,
           TableLines("REC_FRT", "ASCII", <<"FRT_FID", "FRT_START">>, <<"num[9.0]", "num[9.0]">>)),
     Entry("ort_hztf_2", ".X10", 1,
           TableLines("ORT_HZTF", "ASCII", <<"HP_HZT", "FGR_NR">>, <<"num[9.0]", "num[9.0]">>)),
     Entry("ort_hztf_empty", ".x10", 1,
           EmptyTableLines("ORT_HZTF", "ASCII", <<"HP_HZT">>, <<"num[9.0]">>)),
     Entry("readme", ".txt", 1, <<>>),
     Entry("empty", ".x10", 0, <<>>)}

\* The sequences of at most n distinct elements of S.
RECURSIVE Arrangements(_, _)
Arrangements(S, n) ==
    IF n = 0 THEN {<<>>}
    ELSE {<<>>} \cup UNION {{<<x>> \o r : r \in Arrangements(S \ {x}, n - 1)} : x \in S}

\* The archives of the model: the required files (some may be missing) with
\* up to MaxExtraFiles further entries listed before or after them, so that of
\* two files of one table either may come first.
ValInit ==
    /\ \E missing \in SUBSET MissableTables :
       \E extras \in Arrangements(ExtraFiles, MaxExtraFiles) :
       \E k \in 0..Len(extras) :
          zip_entries =
              SubSeq(extras, 1, k)
              \o SelectSeq(RequiredFiles,
                           LAMBDA f : Upper(f.lines[1].arg) \notin missing)
              \o SubSeq(extras, k + 1, Len(extras))
    /\ zip_opens = TRUE
    /\ vpc = "start"
    /\ prepare_result = <<>>
    /\ all_tables_pkl = NoTables
    /\ decoded = {}

PrepareFailed(errors) == [ok |-> FALSE, errors |-> errors]
PrepareSucceeded == [ok |-> TRUE, errors |-> {}]

\* VdvIngester.prepare: the archive is validated and extracted, the extracted
\* directory is validated and the table set is pickled.  Only the ValueError
\* of the validation is caught; any other exception leaves prepare.
Prepare ==
    /\ vpc = "start"
    /\ LET valid_or_error == IF zip_opens THEN validate_zip_file(zip_entries)
                             ELSE ZipFileError
           v == validate_input_data_vdv_451(zip_entries)
       IN IF valid_or_error # {}
          THEN /\ prepare_result' = PrepareFailed(valid_or_error)
               /\ vpc' = "rejected"
               /\ UNCHANGED all_tables_pkl
          ELSE IF v.raised /\ v.kind = "IndexError"
               THEN /\ vpc' = "prepare_raised"
                    /\ UNCHANGED <<prepare_result, all_tables_pkl>>
          ELSE IF v.raised
               THEN /\ prepare_result' =
                         PrepareFailed({<<"validation", <<v.kind, v.tables>>>>})
                    /\ vpc' = "rejected"
                    /\ UNCHANGED all_tables_pkl
               ELSE /\ all_tables_pkl' = v.all_tables
                    /\ prepare_result' = PrepareSucceeded
                    /\ vpc' = "prepared"
    /\ UNCHANGED <<zip_opens, zip_entries, decoded>>

\* VdvIngester.ingest up to the session: the pickled table set is loaded and
\* every table of it is decoded by import_vdv452_table_records.
IngestDecodeTables ==
    /\ vpc = "prepared"
    /\ decoded' = DOMAIN all_tables_pkl
    /\ vpc' = "ingest_decoded"
    /\ UNCHANGED <<zip_opens, zip_entries, prepare_result, all_tables_pkl>>

\* VdvIngester.ingest for a directory whose validation failed: there is no
\* all_tables.pkl, and open() raises before any table is decoded.
IngestWithoutTables ==
    /\ vpc = "rejected"
    /\ vpc' = "ingest_failed"
    /\ UNCHANGED <<zip_opens, zip_entries, prepare_result, all_tables_pkl, decoded>>

ValNext ==
    \/ Prepare /\ UNCHANGED exceptVal
    \/ IngestDecodeTables /\ UNCHANGED exceptVal
    \/ IngestWithoutTables /\ UNCHANGED exceptVal

(***************************************************************************)
(* Claims about validation (checked under SpecValidate)                    *)
(***************************************************************************)
\* The table names for which the archive holds a file whose header parses.
ParsedTables ==
    {check_vdv451_file_header(zip_entries[i]).table.table_name :
       i \in {j \in 1..Len(zip_entries) :
                ~check_vdv451_file_header(zip_entries[j]).raised}}

C3_DuplicateTableRejected ==
    (vpc # "start"
       /\ \E i, j \in 1..Len(zip_entries) :
             /\ i # j
             /\ ~check_vdv451_file_header(zip_entries[i]).raised
             /\ ~check_vdv451_file_header(zip_entries[j]).raised
             /\ check_vdv451_file_header(zip_entries[i]).table.table_name
                  = check_vdv451_file_header(zip_entries[j]).table.table_name)
      => ~prepare_result.ok

\* The same files visited in another order: two of them change places.
Swapped(files, i, j) ==
    [n \in 1..Len(files) |-> IF n = i THEN files[j] ELSE IF n = j THEN files[i] ELSE files[n]]

\* C28: the outcome of validate_input_data_vdv_451 does not depend on the
\* order in which the .x10 files are visited: whether validation succeeds,
\* and which file is bound to each table name, are the same for every order
\* of the same files.
C28_OrderIndependent ==
    vpc \in {"prepared", "rejected"} =>
        \A i, j \in 1..Len(zip_entries) :
            LET this == validate_input_data_vdv_451(zip_entries)
                other == validate_input_data_vdv_451(Swapped(zip_entries, i, j))
            IN  /\ other.raised = this.raised
                /\ other.all_tables = this.all_tables
                /\ vpc = "prepared" => other.all_tables = all_tables_pkl

\* Success or failure alone, and the names of the tables bound, are the same
\* for every order.
C28_SameTablesInEveryOrder ==
    vpc \in {"prepared", "rejected"} =>
        \A i, j \in 1..Len(zip_entries) :
            LET this == validate_input_data_vdv_451(zip_entries)
                other == validate_input_data_vdv_451(Swapped(zip_entries, i, j))
            IN  /\ other.raised = this.raised
                /\ other.kind = this.kind /\ other.tables = this.tables
                /\ DOMAIN other.all_tables = DOMAIN this.all_tables
                /\ vpc = "prepared" => DOMAIN other.all_tables = DOMAIN all_tables_pkl

TenRequiredTables ==
    {"BASIS_VER_GUELTIGKEIT", "FIRMENKALENDER", "REC_ORT", "MENGE_FZG_TYP",
     "REC_SEL", "SEL_FZT_FELD", "LID_VERLAUF", "REC_FRT", "REC_UMLAUF", "REC_LID"}

Scenario(id, task_id) == [kind |-> "Scenario", id |-> id, task_id |-> task_id]

Entity(kind, scenario, id) == [kind |-> kind, scenario |-> scenario.id, id |-> id]

Rotation(scenario, id, name) ==
    [kind |-> "Rotation", scenario |-> scenario.id, id |-> id, name |-> name]

Trip(scenario, id, rotation, times, stops) ==
    [kind |-> "Trip", scenario |-> scenario.id, id |-> id,
     rotation |-> rotation.id,
     departure_time |-> times.departure_time,
     arrival_time |-> times.arrival_time,
     stop_times |-> stops]

\* rotation.trips and scenario.rotations, over the objects of the session and
\* the database.
RotationTrips(rotation, objects) ==
    {t \in objects : t.kind = "Trip" /\ t.rotation = rotation.id}

ScenarioRotations(scenario, objects) ==
    {r \in objects : r.kind = "Rotation" /\ r.scenario = scenario.id}

\* The uuid ingest is called with.
uuid == "uuid"

\* session.query(Scenario).filter(Scenario.task_id == str(uuid))
scenario_q(database) ==
    {s \in database : s.kind = "Scenario" /\ s.task_id = uuid}

\* The scenario ingest works in: a new one (created with a name only), or the
\* one the query finds.
CreatedScenario == Scenario("created", None)

IngestScenario(database) ==
    IF Cardinality(scenario_q(database)) = 0
    THEN CreatedScenario
    ELSE CHOOSE s \in scenario_q(database) : TRUE

\* The primary key of a REC_UMLAUF row and of the template rotation made of it.
UmlaufKey(row) == <<row.basis_version, row.tagesart_nr, row.um_uid>>

TemplateRotation(scenario, pk) == Rotation(scenario, <<"REC_UMLAUF">> \o pk \o <<0>>, pk)

\* The key of the rotation of one duty on one date; vdv_pk_without_date is
\* the key of the duty alone, for comparison.
vdv_pk_without_date(frt, the_date) ==
    <<frt.basis_version, frt.tagesart_nr, frt.um_uid, 0>>

vdv_pk_and_date(frt, the_date) ==
    <<frt.basis_version, frt.tagesart_nr, frt.um_uid, the_date>>

\* Local midnight of a calendar date.  Dates are numbered from 1 and a day is
\* shortened to 600 s, which keeps every time within 32-bit integers; no trip
\* of the model is longer.
LocalMidnight(the_date) == (the_date - 1) * 600 * Second

\* The loop over FIRMENKALENDER for the REC_FRT row i, from calendar entry k on:
\* for every entry of the row's day-type the dated rotation is looked up or
\* created from its template and added, then the trip is built, reconciled and
\* added.  A missing template raises KeyError, a trip of zero duration
\* ValueError; what was added before stays in the session.
RECURSIVE CreateTrips(_, _, _, _, _)
CreateTrips(scenario, i, k, pending, rotations) ==
    IF k > Len(firmenkalender)
    THEN [session |-> pending, rotations |-> rotations, error |-> None]
    ELSE IF firmenkalender[k].tagesart_nr # rec_frt[i].tagesart_nr
    THEN CreateTrips(scenario, i, k + 1, pending, rotations)
    ELSE
      LET frt == rec_frt[i]
          the_date == firmenkalender[k].betriebstag
          key == vdv_pk_and_date(frt, the_date)
          known == key \in DOMAIN rotations
      IN IF ~known /\ UmlaufKey(frt) \notin rec_umlauf
         THEN [session |-> pending, rotations |-> rotations, error |-> "KeyError"]
         ELSE
           LET orig_rotation == TemplateRotation(scenario, UmlaufKey(frt))
               rotation == IF known THEN rotations[key]
                           ELSE Rotation(scenario, <<"dated">> \o key,
                                         orig_rotation.name)
               rotations1 == IF known THEN rotations
                             ELSE rotations @@ (key :> rotation)
               pending1 == pending \cup {rotation}
               b == BuildTrip(LocalMidnight(the_date), frt.frt_start,
                              frt.sel_fzt, frt.hzt)
           IN IF b.raised
              THEN [session |-> pending1, rotations |-> rotations1,
                    error |-> "ValueError"]
              ELSE CreateTrips(scenario, i, k + 1,
                               pending1 \cup
                                 {Trip(scenario, <<i, the_date>>, rotation, b.trip,
                                       fix_identical_stop_times(b.stop_times))},
                               rotations1)

\* The cleanup pass deletes the rotations of the scenario without trips;
\* NoRotations is a pass that deletes none, for comparison.
NoRotations(scenario, objects) == {}

RotationsWithoutTrips(scenario, objects) ==
    {r \in ScenarioRotations(scenario, objects) : RotationTrips(r, objects) = {}}

\* session.rollback() discards the pending change-set; SessionKeepingPending
\* is a rollback that keeps it, for comparison.
SessionKeepingPending(pending) == pending

SessionRollback(pending) == {}

\* session.commit(): pending objects are inserted, deleted ones removed.
SessionCommit(database, pending, removed) == (database \cup pending) \ removed

(***************************************************************************)
(* One call of ingest: its inputs and its steps                            *)
(***************************************************************************)
MaxFrt == 2

BasisVersions == {1, 2}
DayTypes == {1, 2}
Duties == {1, 2}
Dates == {1, 2}

\* REC_UMLAUF: a template for every duty, or all but one.
AllUmlaufKeys == BasisVersions \X DayTypes \X Duties

\* REC_FRT rows with the driving and dwell durations resolved for them: trips
\* of one segment of 120 s, and trips of zero duration.
RecFrtRow(bv, ta, um, d) ==
    [basis_version |-> bv, tagesart_nr |-> ta, um_uid |-> um, frt_start |-> 0,
     sel_fzt |-> <<d>>, hzt |-> <<0, 0>>]

RecFrtRows ==
    {RecFrtRow(bv, ta, um, 120 * Second) :
        bv \in BasisVersions, ta \in DayTypes, um \in Duties}
    \cup {RecFrtRow(1, ta, 1, 0) : ta \in DayTypes}

\* FIRMENKALENDER: every date has at most one entry, which gives its day-type.
Calendar(day_type_of) ==
    LET all == [d \in 1..Cardinality(Dates) |->
                  [betriebstag |-> d, tagesart_nr |-> day_type_of[d]]]
        Present(e) == e.tagesart_nr # 0
    IN SelectSeq(all, Present)

\* The database before ingest: another scenario with a rotation without
\* trips, and possibly a scenario of this uuid with a rotation with one trip
\* and a rotation without trips.
OtherScenario == Scenario("other", "other-uuid")
ExistingScenario == Scenario("existing", uuid)
ExistingRotation(n) == Rotation(ExistingScenario, <<"existing", 0, 0, 0, n>>, <<0, 0, 0>>)

OtherObjects ==
    {OtherScenario, Rotation(OtherScenario, <<"other", 0, 0, 0, 1>>, <<0, 0, 0>>)}

ExistingObjects ==
    {ExistingScenario, ExistingRotation(1), ExistingRotation(2),
     Trip(ExistingScenario, <<0, 0>>, ExistingRotation(1),
          [departure_time |-> 0, arrival_time |-> 120 * Second], <<>>)}

IngInit ==
    /\ rec_umlauf \in {AllUmlaufKeys, AllUmlaufKeys \ {<<1, 2, 2>>}}
    /\ \E c \in [Dates -> {0} \cup DayTypes] : firmenkalender = Calendar(c)
    /\ \E n \in 0..MaxFrt : rec_frt \in [1..n -> RecFrtRows]
    /\ db0 \in {OtherObjects, OtherObjects \cup ExistingObjects}
    /\ db = db0
    /\ session = {}
    /\ deleted = {}
    /\ ipc = "open"
    /\ frt_idx = 0
    /\ rotations_by_vdv_pk_and_date = <<>>
    /\ error = None

\* The scenario is created or fetched; the vehicle types, the template
\* rotations, the stations, the lines and the routes are added to the session.
IngestOpen ==
    /\ ipc = "open"
    /\ LET scenario == IngestScenario(db)
       IN session' =
            (IF Cardinality(scenario_q(db)) = 0 THEN {scenario} ELSE {})
            \cup {Entity("VehicleType", scenario, 1)}
            \cup {TemplateRotation(scenario, pk) : pk \in rec_umlauf}
            \cup {Entity("Station", scenario, n) : n \in {1, 2}}
            \cup {Entity("Line", scenario, 1)}
            \cup {Entity("Route", scenario, 1)}
    /\ ipc' = "assembling"
    /\ UNCHANGED <<rec_umlauf, firmenkalender, rec_frt, db0, db, deleted, frt_idx,
                   rotations_by_vdv_pk_and_date, error>>

\* One pass of the loop over REC_FRT.
IngestTrip ==
    /\ ipc = "assembling" /\ frt_idx < Len(rec_frt)
    /\ LET r == CreateTrips(IngestScenario(db), frt_idx + 1, 1, session,
                            rotations_by_vdv_pk_and_date)
       IN /\ session' = r.session
          /\ rotations_by_vdv_pk_and_date' = r.rotations
          /\ error' = r.error
          /\ IF r.error = None
             THEN frt_idx' = frt_idx + 1 /\ ipc' = "assembling"
             ELSE frt_idx' = frt_idx /\ ipc' = "except"
    /\ UNCHANGED <<rec_umlauf, firmenkalender, rec_frt, db0, db, deleted>>

\* After the loop: flush, and the rotations of the scenario without trips are
\* marked for deletion.
IngestCleanup ==
    /\ ipc = "assembling" /\ frt_idx = Len(rec_frt)
    /\ deleted' = RotationsWithoutTrips(IngestScenario(db), db \cup session)
    /\ ipc' = "finally"
    /\ UNCHANGED <<rec_umlauf, firmenkalender, rec_frt, db0, db, session, frt_idx,
                   rotations_by_vdv_pk_and_date, error>>

\* except Exception: session.rollback(); raise e
IngestRollback ==
    /\ ipc = "except"
    /\ session' = SessionRollback(session)
    /\ deleted' = {}
    /\ ipc' = "finally"
    /\ UNCHANGED <<rec_umlauf, firmenkalender, rec_frt, db0, db, frt_idx,
                   rotations_by_vdv_pk_and_date, error>>

\* finally: session.commit(); then ingest returns, or the exception leaves it.
IngestCommit ==
    /\ ipc = "finally"
    /\ db' = SessionCommit(db, session, deleted)
    /\ session' = {}
    /\ ipc' = IF error = None THEN "returned" ELSE "raised"
    /\ UNCHANGED <<rec_umlauf, firmenkalender, rec_frt, db0, deleted, frt_idx,
                   rotations_by_vdv_pk_and_date, error>>

IngNext ==
    \/ IngestOpen /\ UNCHANGED exceptIng
    \/ IngestTrip /\ UNCHANGED exceptIng
    \/ IngestCleanup /\ UNCHANGED exceptIng
    \/ IngestRollback /\ UNCHANGED exceptIng
    \/ IngestCommit /\ UNCHANGED exceptIng

(***************************************************************************)
(* Claims about ingest and the database                                    *)
(***************************************************************************)
\* C1: if a step of ingest raises after the session was opened, the exception
\* reaches the caller and, once ingest has finished, the database holds no
\* object this call created: it is what it was before.
C1_ErrorLeavesNothing ==
    /\ ipc = "raised" => error # None /\ db = db0
    /\ (ipc = "returned" => error = None)

\* The second scheduled trip has zero duration and a date; the trips of the
\* first were in the session before.
C1_Witness ==
    /\ ipc = "raised" /\ error = "ValueError" /\ frt_idx = 1
    /\ \E k \in 1..Len(firmenkalender) :
          firmenkalender[k].tagesart_nr = rec_frt[1].tagesart_nr

AssemblyCompleted ==
    /\ ipc \in {"assembling", "finally", "returned"}
    /\ frt_idx = Len(rec_frt) /\ error = None

CreatedObjects == (session \cup db) \ db0

CreatedTrips == {t \in CreatedObjects : t.kind = "Trip"}

\* (version, day-type, duty-id, date) of a created trip, from its REC_FRT row
\* and its calendar date.
TripKey(t) ==
    LET frt == rec_frt[t.id[1]]
    IN <<frt.basis_version, frt.tagesart_nr, frt.um_uid, t.id[2]>>

\* C9: after schedule assembly every REC_FRT row has as many trips as
\* FIRMENKALENDER has entries of its day-type; every trip is attached to
\* exactly one rotation; two trips share their rotation if and only if they
\* share (version, day-type, duty-id, date), one rotation being created per key.
C9_TripsPerCalendarEntryAndRotationPerKey ==
    AssemblyCompleted =>
      /\ \A i \in 1..Len(rec_frt) :
            Cardinality({t \in CreatedTrips : t.id[1] = i}) =
            Cardinality({k \in 1..Len(firmenkalender) :
                           firmenkalender[k].tagesart_nr = rec_frt[i].tagesart_nr})
      /\ \A t \in CreatedTrips :
            Cardinality({r \in CreatedObjects :
                           r.kind = "Rotation" /\ r.id = t.rotation}) = 1
      /\ \A t1, t2 \in CreatedTrips :
            (t1.rotation = t2.rotation) <=> (TripKey(t1) = TripKey(t2))
      /\ DOMAIN rotations_by_vdv_pk_and_date = {TripKey(t) : t \in CreatedTrips}

\* Two scheduled trips of one duty, both dates of their day-type: four trips
\* on two rotations.
C9_Witness ==
    /\ AssemblyCompleted
    /\ Len(rec_frt) = 2 /\ UmlaufKey(rec_frt[1]) = UmlaufKey(rec_frt[2])
    /\ Cardinality(CreatedTrips) = 4
    /\ Cardinality(DOMAIN rotations_by_vdv_pk_and_date) = 2

\* C10: after a successful ingest the ingested scenario has no rotation
\* without trips, and no rotation the cleanup pass deleted has a trip.
C10_NoEmptyRotationLeft ==
    ipc = "returned" =>
      /\ \A r \in ScenarioRotations(IngestScenario(db0), db) :
            RotationTrips(r, db) # {}
      /\ \A r \in deleted : RotationTrips(r, db \cup db0) = {}
      /\ \A t \in db \cup db0 :
            t.kind = "Trip" => \E r \in db : r.kind = "Rotation" /\ r.id = t.rotation

\* A scenario that was there before, with a rotation with a trip and one
\* without; a scheduled trip that occurs on no date and one that occurs on a
\* date: the templates and the old rotation without trips are deleted, the
\* dated rotation and the old rotation with its trip remain.
C10_Witness ==
    /\ ipc = "returned"
    /\ ExistingRotation(2) \in deleted /\ ExistingRotation(1) \in db
    /\ \E i \in 1..Len(rec_frt) :
          \A k \in 1..Len(firmenkalender) :
             firmenkalender[k].tagesart_nr # rec_frt[i].tagesart_nr
    /\ \E r \in db \ db0 : r.kind = "Rotation"
    /\ \E r \in deleted : r.name \in rec_umlauf

\* C11: a commit on the session is issued only after assembly and
\* reconciliation completed without error, and after session.rollback() the
\* import issues no commit and takes no further step.
C11_CommitOnlyFromCommitting ==
    [][/\ (ipc = "finally" /\ ipc' # "finally") => error = None
       /\ (ipc = "finally" /\ error # None) => UNCHANGED ingVars]_vars

\* C20: every rotation an import persisted has trips whose time windows do
\* not overlap when they are taken in the order of their departure times:
\* of two trips of a rotation, the one that departs no later has arrived
\* when the other departs.
C20_RotationTripsDoNotOverlap ==
    ipc = "returned" =>
      \A r \in ScenarioRotations(IngestScenario(db0), db) :
         \A a, b \in RotationTrips(r, db) :
            (a # b /\ a.departure_time <= b.departure_time) =>
               a.arrival_time <= b.departure_time

(***************************************************************************)
(* The scenario an ingester works in                                       *)
(***************************************************************************)
\* The scenarios the database may hold before ingest(uuid): two of this
\* uuid, one of another and two without task_id.
CandidateScenarios ==
    {Scenario("a", uuid), Scenario("b", uuid), Scenario("c", "other-uuid"),
     Scenario("d", None), Scenario("e", None)}

ScnInit ==
    /\ ingester \in {"dummy", "vdv", "gtfs"}
    /\ scn_db0 \in SUBSET CandidateScenarios
    /\ scn_db = scn_db0
    /\ scn_pc = "start"
    /\ scn_scenario = None

\* What ingest leaves in the database when it returns: the scenario if it is
\* new, and the objects attached to it, of which the vehicle type stands for
\* all.
CommittedWith(database, scenario) ==
    database \cup {scenario} \cup {Entity("VehicleType", scenario, 1)}

\* DummyIngester.ingest: one_or_none() on the scenarios of this task_id, which
\* raises MultipleResultsFound for more than one; else a scenario with a name
\* only.
DummyIngest ==
    /\ ingester = "dummy" /\ scn_pc = "start"
    /\ LET found == scenario_q(scn_db)
       IN IF Cardinality(found) > 1
          THEN scn_pc' = "raised" /\ UNCHANGED <<scn_db, scn_scenario>>
          ELSE LET scenario == IF found # {} THEN CHOOSE s \in found : TRUE
                               ELSE CreatedScenario
               IN /\ scn_scenario' = scenario
                  /\ scn_db' = CommittedWith(scn_db, scenario)
                  /\ scn_pc' = "returned"
    /\ UNCHANGED <<ingester, scn_db0>>

\* VdvIngester.ingest: count() on the scenarios of this task_id; for none a
\* scenario with a name only, else one(), which raises MultipleResultsFound
\* for more than one; the exception leads to the rollback.
VdvIngest ==
    /\ ingester = "vdv" /\ scn_pc = "start"
    /\ IF Cardinality(scenario_q(scn_db)) > 1
       THEN scn_pc' = "raised" /\ UNCHANGED <<scn_db, scn_scenario>>
       ELSE LET scenario == IngestScenario(scn_db)
            IN /\ scn_scenario' = scenario
               /\ scn_db' = CommittedWith(scn_db, scenario)
               /\ scn_pc' = "returned"
    /\ UNCHANGED <<ingester, scn_db0>>

\* GtfsIngester.ingest: a scenario with a name and a description is created
\* and added; the database is not asked.
GtfsIngest ==
    /\ ingester = "gtfs" /\ scn_pc = "start"
    /\ scn_scenario' = CreatedScenario
    /\ scn_db' = CommittedWith(scn_db, CreatedScenario)
    /\ scn_pc' = "returned"
    /\ UNCHANGED <<ingester, scn_db0>>

ScnNext ==
    \/ DummyIngest /\ UNCHANGED exceptScn
    \/ VdvIngest /\ UNCHANGED exceptScn
    \/ GtfsIngest /\ UNCHANGED exceptScn

\* C12: every ingester first looks for a scenario of this uuid; if there is
\* one, the ingested objects are added to it and no scenario is created; if
\* there is none, a new scenario is created for them.
C12_ExistingScenarioReused ==
    scn_pc = "returned" =>
      LET created == {s \in scn_db \ scn_db0 : s.kind = "Scenario"}
          added == {x \in scn_db \ scn_db0 : x.kind # "Scenario"}
      IN /\ added # {}
         /\ \A x \in added : x.scenario = scn_scenario.id
         /\ IF scenario_q(scn_db0) # {}
            THEN scn_scenario \in scenario_q(scn_db0) /\ created = {}
            ELSE created = {scn_scenario}

(***************************************************************************)
(* VdvIngester.prepare on archives of any kind                             *)
(***************************************************************************)
\* Entries beyond the required files: one dwell-time table, a file whose tbl
\* line ends after the command, a directory, a file of more than 100 MiB, an
\* entry that is no .x10 file and an .x10 file of size zero.
PrepareExtraFiles ==
    {Entry("ort_hztf", ".x10", 1,
           TableLines("ORT_HZTF", "ASCII", <<"HP_HZT">>, <<"num[9.0]">>)),
     Entry("truncated", ".x10", 1,
           <<Line("tbl", NoField), Line("chs", "ASCII"), Line("rec", <<>>)>>),
     [Entry("folder", ".x10", 0, <<>>) EXCEPT !.is_dir = TRUE],
     Entry("huge", ".x10", MaxFileSize + 1, <<>>),
     Entry("readme", ".txt", 1, <<>>),
     Entry("empty", ".x10", 0, <<>>)}

PrepInit ==
    /\ zip_opens \in BOOLEAN
    /\ \E missing \in {{}, {"REC_LID"}} :
       \E extras \in Arrangements(PrepareExtraFiles, MaxExtraFiles) :
       \E k \in 0..Len(extras) :
          zip_entries =
              SubSeq(extras, 1, k)
              \o SelectSeq(RequiredFiles,
                           LAMBDA f : Upper(f.lines[1].arg) \notin missing)
              \o SubSeq(extras, k + 1, Len(extras))
    /\ vpc = "start"
    /\ prepare_result = <<>>
    /\ all_tables_pkl = NoTables
    /\ decoded = {}

\* Every entry is a non-directory .x10 file of more than 0 and at most
\* 100 MiB.
EveryEntryAcceptable ==
    \A i \in 1..Len(zip_entries) :
       /\ IsX10(zip_entries[i].filename) /\ ~zip_entries[i].is_dir
       /\ zip_entries[i].file_size > 0
       /\ zip_entries[i].file_size <= MaxFileSize

\* C13: prepare never raises on invalid input; it returns (True, uuid) exactly
\* when the archive can be read, every entry is acceptable and the validation
\* of the extracted files succeeds, and (False, d) with d not empty otherwise.
C13_PrepareNeverRaises ==
    vpc # "start" =>
      /\ vpc # "prepare_raised"
      /\ prepare_result.ok <=>
            (/\ zip_opens /\ EveryEntryAcceptable
             /\ ~validate_input_data_vdv_451(zip_entries).raised)
      /\ ~prepare_result.ok => prepare_result.errors # {}

(***************************************************************************)
(* check_vdv451_file_header on files of any shape                          *)
(***************************************************************************)
MaxRecs == 2

\* The header lines a file may have, each kind absent or in one of its forms.
TblLines ==
    {<<>>, <<Line("tbl", "REC_FRT")>>, <<Line("tbl", "rec_frt")>>,
     <<Line("tbl", "NO_SUCH_TABLE")>>, <<Line("tbl", NoField)>>}

ChsLines ==
    {<<>>, <<Line("chs", "ASCII")>>, <<Line("chs", "iso-8859-1")>>,
     <<Line("chs", "UTF-8")>>}

AtrLines == {<<>>, <<Line("atr", <<"FRT_FID">>)>>}

FrmLines ==
    {<<>>, <<Line("frm", <<"num[9.0]">>)>>, <<Line("frm", <<"num[9.0]", "char[40]">>)>>}

RecLine == Line("rec", <<>>)

\* A file: header lines in the order tbl, chs, atr, frm, possibly a rec line
\* among them (after the k-th), up to MaxRecs rec lines after them and
\* possibly the eof line.
HdrInit ==
    /\ \E tbl \in TblLines, chs \in ChsLines, atr \in AtrLines, frm \in FrmLines :
       \E n \in 0..MaxRecs, eof \in {<<>>, <<Line("eof", <<>>)>>} :
          LET header == tbl \o chs \o atr \o frm
              recs == [i \in 1..n |-> RecLine]
          IN \/ hdr_lines = header \o recs \o eof
             \/ \E k \in 0..(Len(header) - 1) :
                   hdr_lines = SubSeq(header, 1, k) \o <<RecLine>>
                               \o SubSeq(header, k + 1, Len(header)) \o recs \o eof
    /\ hdr_pc = "start"
    /\ hdr_result = <<>>

CheckHeader ==
    /\ hdr_pc = "start"
    /\ hdr_result' = check_vdv451_file_header(
                         [filename |-> <<"table", ".x10">>, lines |-> hdr_lines])
    /\ hdr_pc' = IF hdr_result'.raised THEN "raised" ELSE "returned"
    /\ UNCHANGED hdr_lines

HdrNext == CheckHeader /\ UNCHANGED exceptHdr

\* The index of the first rec line, or one more than the number of lines.
FirstRec(lines) ==
    IF \E i \in 1..Len(lines) : lines[i].command = "rec"
    THEN CHOOSE i \in 1..Len(lines) :
            /\ lines[i].command = "rec"
            /\ \A j \in 1..(i - 1) : lines[j].command # "rec"
    ELSE Len(lines) + 1

\* A line of this command with a value stands before the first rec line.
DeclaredBeforeFirstRec(lines, command) ==
    \E i \in 1..(FirstRec(lines) - 1) :
       lines[i].command = command /\ lines[i].arg # NoField

\* Every chs value before the first rec line, upper-cased and with ISO-8859-1
\* read as ISO8859-1, is ASCII or ISO8859-1.
EncodingPermitted(lines) ==
    \A i \in 1..(FirstRec(lines) - 1) :
       (lines[i].command = "chs" /\ lines[i].arg # NoField) =>
          Upper(lines[i].arg) \in {"ASCII", "ISO8859-1", "ISO-8859-1"}

\* C14: a VDVTable is returned only if a tbl and a chs line stand before the
\* first rec line and the encoding is permitted; a file whose table name or
\* encoding is missing before the first record, or whose encoding is not
\* permitted, is answered with an exception.
C14_HeaderBeforeFirstRecord ==
    hdr_pc # "start" =>
      (~(/\ DeclaredBeforeFirstRec(hdr_lines, "tbl")
         /\ DeclaredBeforeFirstRec(hdr_lines, "chs")
         /\ EncodingPermitted(hdr_lines))
         => hdr_pc = "raised")

\* C15: a file whose eof line comes before any rec line, and a file without
\* any rec line, is answered with an exception: no VDVTable is returned for a
\* file without records.
C15_EmptyRowSetRejected ==
    (hdr_pc # "start" /\ FirstRec(hdr_lines) > Len(hdr_lines)) => hdr_pc = "raised"

(***************************************************************************)
(* The record decoder: import_vdv452_table_records reads the rows of one   *)
(* table whose header gave the format strings dec_frm, and turns every     *)
(* "rec" row into a dictionary of typed values.  Fields are sequences of   *)
(* characters, so that int() and float() are computed from the text.       *)
(***************************************************************************)

MaxRows == 2

DigitValue(ch) ==
    CASE ch = "0" -> 0 [] ch = "1" -> 1 [] ch = "2" -> 2 [] ch = "3" -> 3
      [] ch = "4" -> 4 [] ch = "5" -> 5 [] ch = "6" -> 6 [] ch = "7" -> 7
      [] ch = "8" -> 8 [] ch = "9" -> 9

\* The number a string of digits denotes.
RECURSIVE Number(_)
Number(c) ==
    IF c = <<>> THEN 0
    ELSE 10 * Number(SubSeq(c, 1, Len(c) - 1)) + DigitValue(c[Len(c)])

Sign(s) == IF s # <<>> /\ Head(s) = "-" THEN -1 ELSE 1

Unsigned(s) == IF s # <<>> /\ Head(s) \in {"+", "-"} THEN Tail(s) ELSE s

\* The typed values of a dictionary.
NoneValue == [type |-> "NoneType"]
IntValue(n) == [type |-> "int", int |-> n]
FloatValue(mantissa, scale) ==
    [type |-> "float", mantissa |-> mantissa, scale |-> scale]
StrValue(c) == [type |-> "str", str |-> c]

\* int(text): blanks around an optionally signed string of digits.
int(text) ==
    LET s == Strip(text)
        body == Unsigned(s)
    IN IF Digits(body, 1, Len(body))
       THEN [raised |-> FALSE, value |-> IntValue(Sign(s) * Number(body))]
       ELSE [raised |-> TRUE, value |-> NoneValue]

\* float(text): blanks around an optionally signed decimal numeral; the
\* value is mantissa / 10^scale.
float(text) ==
    LET s == Strip(text)
        body == Unsigned(s)
        dots == {i \in 1..Len(body) : body[i] = "."}
    IN IF Digits(body, 1, Len(body))
       THEN [raised |-> FALSE, value |-> FloatValue(Sign(s) * Number(body), 0)]
       ELSE IF /\ Cardinality(dots) = 1
               /\ Len(body) > 1
               /\ \A i \in 1..Len(body) : i \in dots \/ IsDigit(body[i])
       THEN LET dot == CHOOSE i \in dots : TRUE
                whole == SubSeq(body, 1, dot - 1)
                fraction == SubSeq(body, dot + 1, Len(body))
            IN [raised |-> FALSE,
                value |-> FloatValue(Sign(s) * Number(whole \o fraction),
                                     Len(fraction))]
       ELSE [raised |-> TRUE, value |-> NoneValue]

\* row_data[i_col].strip() == ""
IsBlankOnlyIfEmpty(field) == field = <<>>

IsBlank(field) == Strip(field) = <<>>

\* One pass of the loop over the columns: the value stored under the column,
\* the column left out, or the ValueError of the conversion.
DecodeField(column_data_type, field) ==
    IF IsBlank(field)
    THEN [raised |-> FALSE, skipped |-> FALSE, value |-> NoneValue]
    ELSE IF column_data_type = None
    THEN [raised |-> FALSE, skipped |-> TRUE, value |-> NoneValue]
    ELSE IF column_data_type = "INT"
    THEN [raised |-> int(field).raised, skipped |-> FALSE,
          value |-> int(field).value]
    ELSE IF column_data_type = "FLOAT"
    THEN [raised |-> float(field).raised, skipped |-> FALSE,
          value |-> float(field).value]
    ELSE [raised |-> FALSE, skipped |-> FALSE, value |-> StrValue(field)]

\* e_data of one row whose field count is right: the columns are named by
\* their position.
DecodeRow(datatypes, row_data) ==
    LET decoded_fields == [i \in 1..Len(row_data) |->
                              DecodeField(datatypes[i], row_data[i])]
        stored == {i \in 1..Len(row_data) : ~decoded_fields[i].skipped}
    IN [raised |-> \E i \in 1..Len(row_data) : decoded_fields[i].raised,
        e_data |-> [i \in stored |-> decoded_fields[i].value]]

\* A raise inside the loop leaves the function without a return value.
ReturnPartialList(dict_list) == [raised |-> FALSE, records |-> dict_list]

RaiseValueError(dict_list) == [raised |-> TRUE, records |-> <<>>]

RECURSIVE ReadRows(_, _, _)
ReadRows(datatypes, rows, dict_list) ==
    IF rows = <<>> THEN [raised |-> FALSE, records |-> dict_list]
    ELSE LET row == Head(rows)
         IN IF row.command # "rec"
            THEN ReadRows(datatypes, Tail(rows), dict_list)
            ELSE IF Len(row.fields) # Len(datatypes)
            THEN RaiseValueError(dict_list)
            ELSE IF DecodeRow(datatypes, row.fields).raised
            THEN RaiseValueError(dict_list)
            ELSE ReadRows(datatypes, Tail(rows),
                          Append(dict_list,
                                 DecodeRow(datatypes, row.fields).e_data))

\* The dictionaries of the rows, in the order of the file.
import_vdv452_table_records(frm, rows) ==
    ReadRows(parse_datatypes(frm), rows, <<>>)

\* The format strings of the first column and of the second.
FirstFormats ==
    {"char[40]", "num[9.0]", " num[9.0]", "num[2.4]", "num[9.00]", "num[100]",
     "float"}

SecondFormats == {"char[40]", "num[9.0]"}

\* The field texts of the first column and of the second.
FirstFields ==
    {<<>>, <<" ">>, <<"1", "2">>, <<" ", "-", "7">>, <<"1", ".", "5">>,
     <<"a", "b">>}

SecondFields == {<<>>, <<"3">>, <<"x">>}

Row(command, fields) == [command |-> command, fields |-> fields]

\* The rows of a file: records of the right length, one record too short and
\* one too long, and the line that ends the file.
Rows ==
    {Row("rec", <<a, b>>) : a \in FirstFields, b \in SecondFields}
        \cup {Row("rec", <<<<"1", "2">>>>),
              Row("rec", <<<<"1", "2">>, <<"3">>, <<"3">>>>),
              Row("eof", <<<<"1">>>>)}

DecInit ==
    /\ dec_frm \in {<<a, b>> : a \in FirstFormats, b \in SecondFormats}
    /\ dec_rows \in UNION {[1..n -> Rows] : n \in 0..MaxRows}
    /\ dec_pc = "start"
    /\ dec_records = <<>>

ImportTable ==
    /\ dec_pc = "start"
    /\ LET imported == import_vdv452_table_records(dec_frm, dec_rows)
       IN /\ dec_pc' = IF imported.raised THEN "raised" ELSE "returned"
          /\ dec_records' = imported.records
    /\ UNCHANGED <<dec_frm, dec_rows>>
    /\ UNCHANGED exceptDec

DecNext == ImportTable

\* The literal forms num[i.0] and num[i.f] with f > 0, and char[n], read off
\* the characters of the format string.
IsIntegerForm(c) ==
    /\ Len(c) >= 8
    /\ HasPrefix(c, <<"n", "u", "m", "[">>)
    /\ Digits(c, 5, Len(c) - 3)
    /\ SubSeq(c, Len(c) - 2, Len(c)) = <<".", "0", "]">>

IsDecimalForm(c) ==
    /\ HasPrefix(c, <<"n", "u", "m", "[">>)
    /\ c[Len(c)] = "]"
    /\ \E dot \in 6..(Len(c) - 2) :
          /\ c[dot] = "."
          /\ Digits(c, 5, dot - 1)
          /\ Digits(c, dot + 1, Len(c) - 1)
          /\ Number(SubSeq(c, dot + 1, Len(c) - 1)) > 0

IsCharForm(c) ==
    /\ HasPrefix(c, <<"c", "h", "a", "r", "[">>)
    /\ Digits(c, 6, Len(c) - 1)
    /\ c[Len(c)] = "]"

\* The rec rows of the file, in order.
RecRows(rows) == SelectSeq(rows, LAMBDA row : row.command = "rec")

\* C16: the data type of every column is what the patterns of
\* parse_datatypes match; a column declared num[i.0] is classified as integer and its
\* non-blank values are decoded to integers; a column declared num[i.f] with
\* f > 0 is classified as decimal and its non-blank values are decoded to
\* decimals; a blank field of a char[n] column is decoded to None and never
\* to a string.
C16_ColumnTyping ==
    \A col \in 1..Len(dec_frm) :
        LET c == Chars(dec_frm[col])
            data_type == parse_datatypes(dec_frm)[col]
        IN /\ data_type = MatchDatatype(dec_frm[col])
           /\ IsIntegerForm(c) => data_type = "INT"
           /\ IsDecimalForm(c) => data_type = "FLOAT"
           /\ IsCharForm(c) => data_type = "CHAR"
           /\ dec_pc = "returned" =>
                \A r \in 1..Len(dec_records) :
                    LET field == RecRows(dec_rows)[r].fields[col]
                        value == dec_records[r][col]
                    IN /\ (IsIntegerForm(c) /\ Strip(field) # <<>>) =>
                             value.type = "int" /\ value.int \in Int
                       /\ (IsDecimalForm(c) /\ Strip(field) # <<>>) =>
                             /\ value.type = "float"
                             /\ value.mantissa \in Int /\ value.scale \in Nat
                       /\ (IsCharForm(c) /\ Strip(field) = <<>>) =>
                             value = NoneValue

\* A table with an integer, a decimal and a text column in use: a decoded
\* integer 12, a decimal 1.5 and a blank text field.
C16_Witness ==
    /\ dec_pc = "returned"
    /\ \E r \in 1..Len(dec_records) :
          /\ dec_frm = <<"num[9.0]", "char[40]">>
          /\ dec_records[r][1] = IntValue(12)
          /\ RecRows(dec_rows)[r].fields[2] = <<>>
          /\ dec_records[r][2] = NoneValue

\* A rec row the decoder cannot accept: a wrong number of fields, or a
\* non-blank text in an integer or decimal column that is no numeral.
Undecodable(frm, row) ==
    /\ row.command = "rec"
    /\ \/ Len(row.fields) # Len(frm)
       \/ \E col \in 1..Len(frm) :
             /\ Strip(row.fields[col]) # <<>>
             /\ \/ parse_datatypes(frm)[col] = "INT" /\ int(row.fields[col]).raised
                \/ parse_datatypes(frm)[col] = "FLOAT" /\ float(row.fields[col]).raised

\* C17: when some rec row has the wrong number of fields, or a non-blank
\* value of an integer or decimal column that cannot be converted, the import
\* raises and returns no record, not even those of the rows before.
C17_AllOrNothing ==
    (dec_pc \in {"returned", "raised"}
        /\ \E r \in 1..Len(dec_rows) : Undecodable(dec_frm, dec_rows[r]))
    => dec_pc = "raised" /\ dec_records = <<>>

\* A good row followed by one that cannot be decoded: the import raised.
C17_Witness ==
    /\ dec_pc = "raised"
    /\ Len(dec_rows) = 2
    /\ ~Undecodable(dec_frm, dec_rows[1]) /\ dec_rows[1].command = "rec"
    /\ Undecodable(dec_frm, dec_rows[2])
    /\ Len(dec_rows[2].fields) = Len(dec_frm)

\* The columns whose format string matches none of the three patterns.
UnsupportedColumns(frm) == {col \in 1..Len(frm) : parse_datatypes(frm)[col] = None}

\* C25: a column whose frm declaration matches neither char[n] nor num[i.f]
\* never aborts parsing, and the column is dropped: its name is a key of no
\* decoded record, whether the field is blank or not.
C25_UnsupportedColumnDropped ==
    /\ dec_pc = "raised" => \E r \in 1..Len(dec_rows) : Undecodable(dec_frm, dec_rows[r])
    /\ dec_pc = "returned" =>
           \A col \in UnsupportedColumns(dec_frm) :
               \A r \in 1..Len(dec_records) : col \notin DOMAIN dec_records[r]

\* The same with the key left out for the non-blank fields only: a blank
\* field of such a column is stored as None under the column's name.
C25_DroppedUnlessBlank ==
    /\ dec_pc = "raised" => \E r \in 1..Len(dec_rows) : Undecodable(dec_frm, dec_rows[r])
    /\ dec_pc = "returned" =>
           \A col \in UnsupportedColumns(dec_frm) :
               \A r \in 1..Len(dec_records) :
                   IF IsBlank(RecRows(dec_rows)[r].fields[col])
                   THEN col \in DOMAIN dec_records[r] /\ dec_records[r][col] = NoneValue
                   ELSE col \notin DOMAIN dec_records[r]

(***************************************************************************)
(* The network assembler: one Line Variant after the other is turned into  *)
(* a Route with its route-station associations.  A Line Variant is the     *)
(* sequence of its points and the lengths of the segments between them.    *)
(* The XML assembler is create_routes_and_time_profiles, the VDV assembler *)
(* the loop over REC_LID in VdvIngester.ingest.  All variants belong to    *)
(* one line of one scenario and have one well-formed time profile.         *)
(***************************************************************************)

MaxPoints == 3

MaxRoutes == 2

\* elapsed_distance += 1e6 * 1000
ZeroDistanceMarker == 1000000 * 1000

GridPoints == {"a", "b"}

\* add_or_ret_station_for_grid_point: every grid point of the model has a
\* station of its own.
StationOf(netzpunkt) == IF netzpunkt = "a" THEN "A" ELSE "B"

SegmentLengths == {-1, 0, 1}

LineVariant(punkt, strecke) == [punkt |-> punkt, strecke |-> strecke]

LineVariants ==
    UNION {{LineVariant(punkt, strecke) :
               punkt \in [1..n -> GridPoints],
               strecke \in [1..(n - 1) -> SegmentLengths]} : n \in 2..MaxPoints}

NoLineVariant == LineVariant(<<>>, <<>>)

AssocRouteStation(station, location, elapsed_distance) ==
    [station |-> station, location |-> location,
     elapsed_distance |-> elapsed_distance]

\* A Route with its associations; the names are built from the line and the
\* two end stations, all grid points being plain stops.
Route(departure_station, arrival_station, assocs) ==
    [name |-> <<departure_station, arrival_station>>,
     assoc_route_stations |-> assocs]

NoRoute == [name |-> <<>>, assoc_route_stations |-> <<>>]

\* The loop over the points of a route, from point i on: the associations
\* so far, the points they were made for, and the distance driven.
RECURSIVE CollectAssocs(_, _, _, _, _)
CollectAssocs(route, i, assocs, kept, elapsed_distance) ==
    IF i > Len(route.punkt)
    THEN [assocs |-> assocs, kept |-> kept, distance |-> elapsed_distance]
    ELSE LET station == StationOf(route.punkt[i])
             last == i = Len(route.punkt)
             summed == IF i > 1 THEN elapsed_distance + route.strecke[i - 1]
                       ELSE elapsed_distance
             distance == IF last /\ summed = 0
                         THEN summed + ZeroDistanceMarker ELSE summed
             assoc == AssocRouteStation(station, route.punkt[i], distance)
         IN IF i = 1
            THEN CollectAssocs(route, i + 1, <<assoc>>, <<i>>, distance)
            ELSE IF /\ station # assocs[Len(assocs)].station
                    /\ distance # assocs[Len(assocs)].elapsed_distance
            THEN CollectAssocs(route, i + 1, Append(assocs, assoc),
                               Append(kept, i), distance)
            ELSE IF last
            THEN CollectAssocs(route, i + 1,
                               [assocs EXCEPT ![Len(assocs)].elapsed_distance = distance],
                               kept, distance)
            ELSE CollectAssocs(route, i + 1, assocs, kept, distance)

XmlAssocs(route) == CollectAssocs(route, 1, <<>>, <<>>, 0)

\* The sanity check after the loop: "The elapsed distance should be
\* increasing for each assoc".
DistanceNeverChecked(assocs) == FALSE

DistanceNotIncreasing(assocs) ==
    \E i \in 1..(Len(assocs) - 1) :
        ~(assocs[i + 1].elapsed_distance > assocs[i].elapsed_distance)

\* The ValueError of the sanity checks, or None.
XmlRouteError(assocs) ==
    IF Len(assocs) < 2 THEN "There should be at least one assoc"
    ELSE IF DistanceNotIncreasing(assocs)
    THEN "The elapsed distance should be increasing for each assoc"
    ELSE None

\* The route of the scenario with the candidate's names and associations.
ExistingRoutes(routes, db_route) ==
    {existing_route \in BagToSet(routes) :
        /\ existing_route.name = db_route.name
        /\ Len(existing_route.assoc_route_stations) = Len(db_route.assoc_route_stations)
        /\ \A i \in 1..Len(db_route.assoc_route_stations) :
              existing_route.assoc_route_stations[i] = db_route.assoc_route_stations[i]}

\* create_route for the associations of a candidate.
create_route(assocs) ==
    Route(assocs[1].station, assocs[Len(assocs)].station, assocs)

\* The XML assembler takes one route of the schedule: the sanity checks
\* raise, an equal route of the scenario is used again, or the new route is
\* added.  The exception ends the import, which rolls the session back.
AssembleXml ==
    /\ rte_pipeline = "xml"
    /\ rte_pc = "assembling"
    /\ BagCardinality(rte_routes) < MaxRoutes
    /\ \E route \in LineVariants :
          LET assocs == XmlAssocs(route).assocs
              db_route == create_route(assocs)
              route_q == ExistingRoutes(rte_routes, db_route)
          IN /\ rte_candidate' = route
             /\ IF XmlRouteError(assocs) # None
                THEN /\ rte_pc' = "raised"
                     /\ rte_routes' = EmptyBag
                     /\ rte_ref' = NoRoute
                ELSE IF route_q # {}
                THEN /\ rte_pc' = "assembling"
                     /\ rte_routes' = rte_routes
                     /\ rte_ref' = CHOOSE existing_route \in route_q : TRUE
                ELSE /\ rte_pc' = "assembling"
                     /\ rte_routes' = rte_routes (+) SetToBag({db_route})
                     /\ rte_ref' = db_route
    /\ UNCHANGED rte_pipeline
    /\ UNCHANGED exceptRte

\* The routes create_routes_and_time_profiles of bvgxml.py takes for the
\* candidate: those of its names and length that differ from it at no
\* position in both the location and the elapsed distance.
RoutesNotDifferingInBoth(routes, db_route) ==
    {existing_route \in BagToSet(routes) :
        /\ existing_route.name = db_route.name
        /\ Len(existing_route.assoc_route_stations) = Len(db_route.assoc_route_stations)
        /\ ~\E i \in 1..Len(db_route.assoc_route_stations) :
              /\ existing_route.assoc_route_stations[i].location
                     # db_route.assoc_route_stations[i].location
              /\ existing_route.assoc_route_stations[i].elapsed_distance
                     # db_route.assoc_route_stations[i].elapsed_distance}

\* The XML assembler of bvgxml.py takes one route of the schedule: the same
\* loop and sanity checks as above, then its own test for a route that
\* already exists.  rte_ref is the route the candidate was taken to be.
AssembleBvgXml ==
    /\ rte_pipeline = "bvgxml"
    /\ rte_pc = "assembling"
    /\ BagCardinality(rte_routes) < MaxRoutes
    /\ \E route \in LineVariants :
          LET assocs == XmlAssocs(route).assocs
              db_route == create_route(assocs)
              route_q == RoutesNotDifferingInBoth(rte_routes, db_route)
          IN /\ rte_candidate' = route
             /\ IF XmlRouteError(assocs) # None
                THEN /\ rte_pc' = "raised"
                     /\ rte_routes' = EmptyBag
                     /\ rte_ref' = NoRoute
                ELSE IF route_q # {}
                THEN /\ rte_pc' = "assembling"
                     /\ rte_routes' = rte_routes
                     /\ rte_ref' = CHOOSE existing_route \in route_q : TRUE
                ELSE /\ rte_pc' = "assembling"
                     /\ rte_routes' = rte_routes (+) SetToBag({db_route})
                     /\ rte_ref' = db_route
    /\ UNCHANGED rte_pipeline
    /\ UNCHANGED exceptRte

\* RecLid.to_route: the stations of the variant in the order of LID_VERLAUF,
\* each with the summed lengths of the segments before it.
RECURSIVE VdvAssocs(_, _, _, _)
VdvAssocs(rec_lid, i, assocs, elapsed_distance) ==
    IF i > Len(rec_lid.punkt) THEN assocs
    ELSE LET distance == IF i > 1 THEN elapsed_distance + rec_lid.strecke[i - 1]
                         ELSE elapsed_distance
         IN VdvAssocs(rec_lid, i + 1,
                      Append(assocs,
                             AssocRouteStation(StationOf(rec_lid.punkt[i]),
                                               rec_lid.punkt[i], distance)),
                      distance)

to_route(rec_lid) ==
    LET assocs == VdvAssocs(rec_lid, 1, <<>>, 0)
    IN [raised |-> DistanceNotIncreasing(assocs), route |-> create_route(assocs)]

\* The VDV assembler takes one REC_LID row: the route to_route made is
\* added to the session and entered in routes_by_vdv_pk.
AssembleVdv ==
    /\ rte_pipeline = "vdv"
    /\ rte_pc = "assembling"
    /\ BagCardinality(rte_routes) < MaxRoutes
    /\ \E rec_lid \in LineVariants :
          /\ rte_candidate' = rec_lid
          /\ IF to_route(rec_lid).raised
             THEN /\ rte_pc' = "raised"
                  /\ rte_routes' = EmptyBag
                  /\ rte_ref' = NoRoute
             ELSE /\ rte_pc' = "assembling"
                  /\ rte_routes' = rte_routes (+) SetToBag({to_route(rec_lid).route})
                  /\ rte_ref' = to_route(rec_lid).route
    /\ UNCHANGED rte_pipeline
    /\ UNCHANGED exceptRte

RteInit ==
    /\ rte_pipeline \in {"xml", "bvgxml", "vdv"}
    /\ rte_routes = EmptyBag
    /\ rte_candidate = NoLineVariant
    /\ rte_ref = NoRoute
    /\ rte_pc = "assembling"

RteNext == AssembleXml \/ AssembleBvgXml \/ AssembleVdv

\* C18: a Line Variant that is assembled a second time in a scenario, with
\* the same stations in the same order and the same elapsed distances, adds
\* no Route: no two Routes of the scenario have the same names and the same
\* route-station associations, and the variant assembled last refers to a
\* Route of the scenario.
C18_OneRoutePerLineVariant ==
    /\ \A route \in BagToSet(rte_routes) : CopiesIn(route, rte_routes) = 1
    /\ rte_ref # NoRoute => BagIn(rte_ref, rte_routes)

\* The sums of the segment lengths up to each point of a candidate.
RECURSIVE SummedLength(_, _)
SummedLength(route, i) ==
    IF i <= 1 THEN 0 ELSE SummedLength(route, i - 1) + route.strecke[i - 1]

DistancesIncrease(distances) ==
    \A i \in 1..(Len(distances) - 1) : distances[i] < distances[i + 1]

ElapsedDistances(db_route) ==
    [i \in 1..Len(db_route.assoc_route_stations) |->
        db_route.assoc_route_stations[i].elapsed_distance]

\* The summed segment lengths at the stops the assembler keeps.
KeptSummedLengths(route) ==
    [k \in 1..Len(XmlAssocs(route).kept) |->
        SummedLength(route, XmlAssocs(route).kept[k])]

Rejected == rte_pc = "raised" /\ rte_routes = EmptyBag

SameStops(existing_route, db_route) ==
    /\ Len(existing_route.assoc_route_stations) = Len(db_route.assoc_route_stations)
    /\ \A i \in 1..Len(db_route.assoc_route_stations) :
          /\ existing_route.assoc_route_stations[i].location
                 = db_route.assoc_route_stations[i].location
          /\ existing_route.assoc_route_stations[i].elapsed_distance
                 = db_route.assoc_route_stations[i].elapsed_distance

\* The candidate of the last step passed the sanity checks of an XML assembler.
XmlCandidateTaken(pipelines) ==
    /\ rte_pipeline \in pipelines
    /\ rte_pc = "assembling"
    /\ rte_candidate # NoLineVariant

\* C30: route deduplication never merges distinct routes: the Route a
\* candidate is taken to be is a Route of the scenario with the candidate's
\* name, its number of stops and at every position its location and elapsed
\* distance; a candidate that differs from every Route of the scenario at
\* some position is added as a Route of its own.
C30_NeverMergesDistinctRoutes ==
    XmlCandidateTaken({"xml", "bvgxml"}) =>
        LET db_route == create_route(XmlAssocs(rte_candidate).assocs)
        IN /\ BagIn(rte_ref, rte_routes)
           /\ rte_ref.name = db_route.name
           /\ SameStops(rte_ref, db_route)
           /\ (\A existing_route \in BagToSet(rte_routes) \ {db_route} :
                   ~SameStops(existing_route, db_route)) => BagIn(db_route, rte_routes)

\* The same for the legacy assembler alone, whose test says "or" where the
\* one of bvgxml.py says "and".
C30_LegacyNeverMerges ==
    XmlCandidateTaken({"xml"}) =>
        LET db_route == create_route(XmlAssocs(rte_candidate).assocs)
        IN /\ BagIn(rte_ref, rte_routes)
           /\ rte_ref.name = db_route.name
           /\ SameStops(rte_ref, db_route)
           /\ BagIn(db_route, rte_routes)

\* bvgxml.py took a candidate for a route with other elapsed distances.
C30_MergedWithOtherDistances ==
    /\ XmlCandidateTaken({"bvgxml"})
    /\ rte_candidate = LineVariant(<<"a", "b">>, <<0>>)
    /\ rte_ref.assoc_route_stations
           = <<AssocRouteStation("A", "a", 0), AssocRouteStation("B", "b", 1)>>

(***************************************************************************)
(* Progress reporting of prepare and ingest; the dummy ingester            *)
(* (dummy.py, gtfs.py, vdv.py, base.py)                                    *)
(*                                                                         *)
(* A value passed to progress_callback is a fraction num/den, kept exact.  *)
(* The entities the GTFS and VDV imports write are modelled in the other   *)
(* parts; here their runs are followed call by call of the callback.       *)
(***************************************************************************)
MaxCount == 2
MaxTrips == 2

Fraction(num, den) == [num |-> num, den |-> den]
LessEq(a, b) == a.num * b.den <= b.num * a.den
One == Fraction(1, 1)

\* progress_callback(value) behind "if progress_callback:".
Report(reported, value) == IF prg_callback THEN Append(reported, value) ELSE reported

\* The error dictionary of DummyIngester.prepare, as the set of its keys.
PrepareErrors(params) ==
    (IF params.depot_count < 1 THEN {"Wrong Depot Count"} ELSE {})
    \cup (IF params.line_count < 1 THEN {"Wrong Line Count"} ELSE {})
    \cup (IF params.rotation_per_line < 1 THEN {"Wrong Rotation Per Line"} ELSE {})
    \cup (IF ~params.txt THEN {"Wrong Random Text File"} ELSE {})

\* session.query(Scenario).filter(Scenario.task_id == uuid).one_or_none()
scenario_never_found(scenarios, task_id) == {}
scenario_or_none(scenarios, task_id) == {s \in scenarios : s.task_id = task_id}

NewScenarioId(scenarios) == 1 + Cardinality(scenarios)

\* The argument of the callback in the innermost loop of DummyIngester.ingest.
DummyProgress(i, j, k, params) ==
    Fraction(i * params.line_count * params.rotation_per_line + j * params.rotation_per_line + k,
             params.depot_count * params.line_count * params.rotation_per_line)

\* The loop variables of the iteration after (i, j, k); i = depot_count
\* when the three nested range() loops are exhausted.
NextIteration(l, params) ==
    IF l.k + 1 < params.rotation_per_line THEN [l EXCEPT !.k = l.k + 1]
    ELSE IF l.j + 1 < params.line_count THEN [i |-> l.i, j |-> l.j + 1, k |-> 0]
    ELSE [i |-> l.i + 1, j |-> 0, k |-> 0]

\* The sections of GtfsIngester.ingest in hundredths: stations, lines,
\* routes, vehicle type, rotations, trip activity, trips, stop times,
\* route-station associations, commit.
PROGRESS_SECTIONS == <<10, 5, 10, 1, 5, 4, 25, 25, 10, 5>>
TripsSection == 7
StopTimesSection == 8
CommitSection == 10

current(hundredths) == Fraction(hundredths, 100)

\* trips_start_progress + (trip_idx + 1) / total_trips * PROGRESS_TRIPS
trip_progress_without_start(start, trip_idx, total_trips, section) ==
    Fraction((trip_idx + 1) * section, 100 * total_trips)
trip_progress(start, trip_idx, total_trips, section) ==
    Fraction(start * total_trips + (trip_idx + 1) * section, 100 * total_trips)

PrgInit ==
    /\ prg_ingester \in {"Dummy", "GTFS", "VDV"}
    /\ prg_callback \in BOOLEAN
    /\ prg_params \in [depot_count : 0..MaxCount, line_count : 0..MaxCount,
                       rotation_per_line : 0..MaxCount, txt : BOOLEAN,
                       total_trips : 0..MaxTrips]
    /\ prg_ingester = "Dummy" => prg_params.total_trips = 0
    /\ prg_ingester # "Dummy" =>
           /\ prg_params.depot_count = 1 /\ prg_params.line_count = 1
           /\ prg_params.rotation_per_line = 1 /\ prg_params.txt
    /\ prg_run = "prepare" /\ prg_pc = "start"
    /\ prg_loop = [i |-> 0, j |-> 0, k |-> 0]
    /\ prg_gtfs = [stage |-> 0, trip_idx |-> 0, current_progress |-> 0]
    /\ prg_reported = <<>>
    /\ prg_scenarios = {[id |-> 1, task_id |-> "other"]}
    /\ prg_scenario = 0
    /\ prg_session = {}
    /\ \E old \in SUBSET {[scenario_id |-> 1, depot |-> 0, line |-> 0, k |-> 0]} :
           prg_db = [before |-> old, now |-> old]

\* DummyIngester.prepare: the values are checked; valid ones are pickled
\* under a new UUID and the callback is called once with 1.0.
DummyPrepare ==
    /\ prg_ingester = "Dummy" /\ prg_pc = "start"
    /\ IF PrepareErrors(prg_params) # {}
       THEN /\ prg_pc' = "invalid"
            /\ prg_reported' = prg_reported
       ELSE /\ prg_pc' = "prepared"
            /\ prg_reported' = Report(prg_reported, One)
    /\ UNCHANGED <<prg_ingester, prg_callback, prg_params, prg_run, prg_loop, prg_gtfs,
                   prg_scenarios, prg_scenario, prg_session, prg_db>>
    /\ UNCHANGED exceptPrg

\* The caller stores a Scenario whose task_id is the prepared UUID before
\* it calls ingest (test_ingest_existing_scenario).
AddScenarioForTask ==
    /\ prg_ingester = "Dummy" /\ prg_pc = "prepared"
    /\ \A s \in prg_scenarios : s.task_id # uuid
    /\ prg_scenarios' = prg_scenarios
           \cup {[id |-> NewScenarioId(prg_scenarios), task_id |-> uuid]}
    /\ UNCHANGED <<prg_ingester, prg_callback, prg_params, prg_run, prg_pc, prg_loop, prg_gtfs,
                   prg_reported, prg_scenario, prg_session, prg_db>>
    /\ UNCHANGED exceptPrg

\* DummyIngester.ingest up to the loops: the pickle and the text file must
\* exist, the scenario is looked up by task_id or created.
DummyIngestBegin ==
    /\ prg_ingester = "Dummy" /\ prg_pc \in {"prepared", "invalid"}
    /\ prg_run' = "ingest"
    /\ prg_reported' = <<>>
    /\ IF prg_pc = "invalid"
       THEN /\ prg_pc' = "raised"
            /\ UNCHANGED <<prg_scenarios, prg_scenario>>
       ELSE /\ prg_pc' = "creating"
            /\ LET found == scenario_or_none(prg_scenarios, uuid)
               IN  IF found # {}
                   THEN /\ prg_scenario' = (CHOOSE s \in found : TRUE).id
                        /\ prg_scenarios' = prg_scenarios
                   ELSE /\ prg_scenario' = NewScenarioId(prg_scenarios)
                        /\ prg_scenarios' = prg_scenarios
                               \cup {[id |-> NewScenarioId(prg_scenarios), task_id |-> "none"]}
    /\ prg_loop' = [i |-> 0, j |-> 0, k |-> 0]
    /\ prg_session' = {}
    /\ prg_db' = [before |-> prg_db.now, now |-> prg_db.now]
    /\ UNCHANGED <<prg_ingester, prg_callback, prg_params, prg_gtfs>>
    /\ UNCHANGED exceptPrg

\* One iteration of the innermost loop: _create_rotation, then the callback.
DummyCreateRotation ==
    /\ prg_ingester = "Dummy" /\ prg_pc = "creating"
    /\ prg_loop.i < prg_params.depot_count
    /\ prg_session' = prg_session \cup {[scenario_id |-> prg_scenario, depot |-> prg_loop.i,
                                          line |-> prg_loop.j, k |-> prg_loop.k]}
    /\ prg_reported' = Report(prg_reported,
                              DummyProgress(prg_loop.i, prg_loop.j, prg_loop.k, prg_params))
    /\ prg_loop' = NextIteration(prg_loop, prg_params)
    /\ UNCHANGED <<prg_ingester, prg_callback, prg_params, prg_run, prg_pc, prg_gtfs,
                   prg_scenarios, prg_scenario, prg_db>>
    /\ UNCHANGED exceptPrg

\* session.commit() after the loops; ingest returns.
DummyCommit ==
    /\ prg_ingester = "Dummy" /\ prg_pc = "creating"
    /\ prg_loop.i >= prg_params.depot_count
    /\ prg_db' = [prg_db EXCEPT !.now = prg_db.now \cup prg_session]
    /\ prg_session' = {}
    /\ prg_pc' = "returned"
    /\ UNCHANGED <<prg_ingester, prg_callback, prg_params, prg_run, prg_loop, prg_gtfs,
                   prg_reported, prg_scenarios, prg_scenario>>
    /\ UNCHANGED exceptPrg

\* GtfsIngester.ingest enters the try block: callback(0.0), new scenario.
GtfsIngestBegin ==
    /\ prg_ingester = "GTFS" /\ prg_pc = "start"
    /\ prg_run' = "ingest"
    /\ prg_pc' = "stage"
    /\ prg_gtfs' = [stage |-> 1, trip_idx |-> 0, current_progress |-> 0]
    /\ prg_reported' = Report(<<>>, current(0))
    /\ prg_scenario' = NewScenarioId(prg_scenarios)
    /\ prg_scenarios' = prg_scenarios
           \cup {[id |-> NewScenarioId(prg_scenarios), task_id |-> "none"]}
    /\ UNCHANGED <<prg_ingester, prg_callback, prg_params, prg_loop, prg_session, prg_db>>
    /\ UNCHANGED exceptPrg

\* One iteration over trips_df in the trips or the stop-times section.  A
\* trip that runs on no selected date is skipped by "continue", before the
\* callback; a trip without endpoint information raises.
GtfsTripStep ==
    /\ prg_ingester = "GTFS" /\ prg_pc = "stage"
    /\ prg_gtfs.stage \in {TripsSection, StopTimesSection}
    /\ prg_gtfs.trip_idx < prg_params.total_trips
    /\ \E outcome \in {"created", "skipped", "raised"} :
         /\ outcome = "raised" => prg_gtfs.stage = TripsSection
         /\ prg_pc' = IF outcome = "raised" THEN "raised" ELSE "stage"
         /\ prg_gtfs' = IF outcome = "raised" THEN prg_gtfs
                        ELSE [prg_gtfs EXCEPT !.trip_idx = prg_gtfs.trip_idx + 1]
         /\ prg_reported' =
                IF outcome = "created"
                THEN Report(prg_reported,
                            trip_progress(prg_gtfs.current_progress, prg_gtfs.trip_idx,
                                          prg_params.total_trips,
                                          PROGRESS_SECTIONS[prg_gtfs.stage]))
                ELSE prg_reported
    /\ UNCHANGED <<prg_ingester, prg_callback, prg_params, prg_run, prg_loop,
                   prg_scenarios, prg_scenario, prg_session, prg_db>>
    /\ UNCHANGED exceptPrg

\* A section is finished: current_progress grows by the section's share and
\* is reported; after session.commit() the literal 1.0 is reported.
GtfsSectionDone ==
    /\ prg_ingester = "GTFS" /\ prg_pc = "stage"
    /\ prg_gtfs.stage \in {TripsSection, StopTimesSection}
           => prg_gtfs.trip_idx = prg_params.total_trips
    /\ LET progress == prg_gtfs.current_progress + PROGRESS_SECTIONS[prg_gtfs.stage]
       IN  IF prg_gtfs.stage = CommitSection
           THEN /\ prg_pc' = "returned"
                /\ prg_gtfs' = [prg_gtfs EXCEPT !.current_progress = progress]
                /\ prg_reported' = Report(prg_reported, One)
           ELSE /\ prg_pc' = "stage"
                /\ prg_gtfs' = [stage |-> prg_gtfs.stage + 1, trip_idx |-> 0,
                                current_progress |-> progress]
                /\ prg_reported' = Report(prg_reported, current(progress))
    /\ UNCHANGED <<prg_ingester, prg_callback, prg_params, prg_run, prg_loop,
                   prg_scenarios, prg_scenario, prg_session, prg_db>>
    /\ UNCHANGED exceptPrg

\* VdvIngester.ingest: the parameter progress_callback is not used anywhere
\* in the body; the import commits and returns, or raises.
VdvIngestRun ==
    /\ prg_ingester = "VDV" /\ prg_pc = "start"
    /\ prg_run' = "ingest"
    /\ prg_reported' = <<>>
    /\ \E outcome \in {"returned", "raised"} : prg_pc' = outcome
    /\ UNCHANGED <<prg_ingester, prg_callback, prg_params, prg_loop, prg_gtfs,
                   prg_scenarios, prg_scenario, prg_session, prg_db>>
    /\ UNCHANGED exceptPrg

PrgNext ==
    \/ DummyPrepare
    \/ AddScenarioForTask
    \/ DummyIngestBegin
    \/ DummyCreateRotation
    \/ DummyCommit
    \/ GtfsIngestBegin
    \/ GtfsTripStep
    \/ GtfsSectionDone
    \/ VdvIngestRun

InUnitInterval(value) == LessEq(Fraction(0, 1), value) /\ LessEq(value, One)

\* C21: in every prepare or ingest run that is given a progress callback,
\* every value passed to it lies in [0, 1] and no value is smaller than a
\* value passed earlier in the same run.
C21_ProgressInRangeAndMonotone ==
    /\ \A n \in 1..Len(prg_reported) : InUnitInterval(prg_reported[n])
    /\ \A m, n \in 1..Len(prg_reported) : m < n => LessEq(prg_reported[m], prg_reported[n])

\* A GTFS ingest with a callback has reported from inside both loops over
\* the trips and has returned.
C21_Witness ==
    /\ prg_ingester = "GTFS" /\ prg_callback /\ prg_pc = "returned"
    /\ Len(prg_reported) >= Len(PROGRESS_SECTIONS) + 1 + 2 * MaxTrips

\* A dummy ingest with a callback has reported once per rotation.
C21_WitnessDummy ==
    /\ prg_ingester = "Dummy" /\ prg_callback /\ prg_pc = "returned"
    /\ Len(prg_reported) = MaxCount * MaxCount * MaxCount

\* C22: an ingest call of any ingester (Dummy, GTFS, VDV) that is given a
\* progress callback and completes successfully has invoked the callback at
\* least once before it returns.
C22_CallbackInvokedBeforeReturn ==
    (prg_run = "ingest" /\ prg_callback /\ prg_pc = "returned") => Len(prg_reported) >= 1

\* The same for the two ingesters that do report.
C22_DummyAndGtfsReport ==
    (prg_ingester # "VDV" /\ prg_run = "ingest" /\ prg_callback /\ prg_pc = "returned")
        => Len(prg_reported) >= 1

RotationsOf(rotations, scenario_id) == {r \in rotations : r.scenario_id = scenario_id}

\* The scenarios stored with the prepared UUID before ingest was called.
PreExisting == {s \in prg_scenarios : s.task_id = uuid}

MaxEntries == 3

ValidityDates == 1..3
Versions == {1, 2}

\* BasisVerGueltigkeit.from_dict: a dataclass of the two columns; two
\* objects are equal when both fields are.
BasisVerGueltigkeit(d) == [ver_gueltigkeit |-> d.ver_gueltigkeit, basis_version |-> d.basis_version]

\* set(objects)
DistinctBasisVersions(objects) == {objects[n].basis_version : n \in 1..Len(objects)}
DistinctObjects(objects) == {objects[n] : n \in 1..Len(objects)}

VerInit ==
    /\ \E len \in 1..MaxEntries :
           ver_dict_list \in [1..len -> [ver_gueltigkeit : ValidityDates, basis_version : Versions]]
    /\ ver_today \in ValidityDates
    /\ ver_pc = "start"
    /\ ver_objects = <<>>

\* The case BASIS_VER_GUELTIGKEIT of import_vdv452_table_records, called by
\* VdvIngester.ingest while it loads the tables: the ValueError leaves
\* ingest before the database session is opened.
ImportBasisVerGueltigkeit ==
    /\ ver_pc = "start"
    /\ LET objects == [n \in 1..Len(ver_dict_list) |-> BasisVerGueltigkeit(ver_dict_list[n])]
       IN  IF Cardinality(DistinctObjects(objects)) # 1
           THEN /\ ver_pc' = "raised"
                /\ ver_objects' = <<>>
           ELSE /\ ver_pc' = "returned"
                /\ ver_objects' = objects
    /\ UNCHANGED <<ver_dict_list, ver_today>>
    /\ UNCHANGED exceptVer

\* The import is run again on another day.
NextDay ==
    /\ ver_pc # "start"
    /\ ver_today + 1 \in ValidityDates
    /\ ver_today' = ver_today + 1
    /\ ver_pc' = "start"
    /\ ver_objects' = <<>>
    /\ UNCHANGED ver_dict_list
    /\ UNCHANGED exceptVer

VerNext == ImportBasisVerGueltigkeit \/ NextDay

VersionsOf(dict_list) == {dict_list[n].basis_version : n \in 1..Len(dict_list)}

\* The rows whose validity start is not after the current date.
ValidRows(dict_list, today) ==
    {dict_list[n] : n \in {m \in 1..Len(dict_list) : dict_list[m].ver_gueltigkeit <= today}}

\* The versions of the rows with the latest such validity start.
LatestValidVersions(dict_list, today) ==
    {d.basis_version : d \in {e \in ValidRows(dict_list, today) :
                                 \A f \in ValidRows(dict_list, today) :
                                     f.ver_gueltigkeit <= e.ver_gueltigkeit}}

ActiveVersions == {ver_objects[n].basis_version : n \in 1..Len(ver_objects)}

\* C24 (as stated): when BASIS_VER_GUELTIGKEIT contains several distinct
\* versions, the import treats exactly one of them as active, the latest
\* whose validity start is not after the current date, and proceeds.
C24_LatestValidVersionActive ==
    (ver_pc # "start" /\ Cardinality(VersionsOf(ver_dict_list)) > 1
        /\ Cardinality(LatestValidVersions(ver_dict_list, ver_today)) = 1)
        => /\ ver_pc = "returned"
           /\ ActiveVersions = LatestValidVersions(ver_dict_list, ver_today)

\* C24 (amended): the import proceeds exactly when all rows of
\* BASIS_VER_GUELTIGKEIT are equal, and then returns them as they are; a
\* table with two rows that differ in version or in validity start raises
\* ValueError, whatever the current date.
C24_OneDistinctEntryOrError ==
    ver_pc # "start" =>
        IF \A m, n \in 1..Len(ver_dict_list) : ver_dict_list[m] = ver_dict_list[n]
        THEN ver_pc = "returned" /\ ver_objects = ver_dict_list
        ELSE ver_pc = "raised" /\ ver_objects = <<>>

\* A table with two versions, one of them valid today, has been refused.
C24_Witness ==
    /\ ver_pc = "raised"
    /\ Cardinality(VersionsOf(ver_dict_list)) > 1
    /\ Cardinality(LatestValidVersions(ver_dict_list, ver_today)) = 1

\* One version listed with two validity starts has been refused as well.
C24_WitnessSameVersion ==
    /\ ver_pc = "raised"
    /\ Cardinality(VersionsOf(ver_dict_list)) = 1

(***************************************************************************)
(* Driving and dwell durations of a trip (vdv.py, VdvIngester.ingest)      *)
(*                                                                         *)
(* One trip (REC_FRT row) on a route with one segment, which ends at the   *)
(* place "b".  The SEL_FZT_FELD rows are those of the segment, so that     *)
(* they differ in the timing group and the duration only.  Durations are   *)
(* seconds.                                                                *)
(***************************************************************************)
MaxCandidates == 2
MaxDwellRows == 2

\* The trip: its id and its timing group (Fahrzeitgruppe).
rec_frt_of_trip == [frt_fid |-> 1, fgr_nr |-> 1]
next_station_pk == "b"

TimingGroups == {1, 2, 3}
TripIds == {1, 2}
Places == {"b", "c"}

SelFztFeld(fgr_nr, duration) == [fgr_nr |-> fgr_nr, sel_fzt |-> duration]
RecFrtHzt(frt_fid, place) == [frt_fid |-> frt_fid, position_key |-> place, frt_hzt_zeit |-> 30]
OrtHztf(fgr_nr, place) == [fgr_nr |-> fgr_nr, position_key |-> place, hp_hzt |-> 20 * fgr_nr]

SeqsUpTo(S, n) == UNION {[1..len -> S] : len \in 0..n}

Select(rows, Test(_)) == SelectSeq(rows, Test)

LkpInit ==
    /\ lkp_sel_fzt_felds \in SeqsUpTo({SelFztFeld(g, d) : g \in TimingGroups, d \in {60, 120}},
                                      MaxCandidates)
    /\ \/ /\ lkp_rec_frt_hzts \in SeqsUpTo({RecFrtHzt(t, p) : t \in TripIds, p \in Places},
                                           MaxDwellRows)
          /\ lkp_ort_hztfs = <<>>
       \/ /\ lkp_rec_frt_hzts = <<>>
          /\ lkp_ort_hztfs \in SeqsUpTo({OrtHztf(g, p) : g \in TimingGroups, p \in Places},
                                        MaxDwellRows)
    /\ lkp_pc = "start" /\ lkp_driving = -1 /\ lkp_dwell = -1 /\ lkp_error = ""

\* assert bool(len(rec_frt_hzts) > 0) ^ bool(len(ort_hztfs) > 0)
CheckDwellTables ==
    /\ lkp_pc = "start"
    /\ IF (Len(lkp_rec_frt_hzts) > 0) # (Len(lkp_ort_hztfs) > 0)
       THEN lkp_pc' = "driving" /\ lkp_error' = lkp_error
       ELSE lkp_pc' = "raised" /\ lkp_error' = "AssertionError"
    /\ UNCHANGED <<lkp_sel_fzt_felds, lkp_rec_frt_hzts, lkp_ort_hztfs, lkp_driving, lkp_dwell>>
    /\ UNCHANGED exceptLkp

\* sel_fzt_felds_by_pk[sel_fzt_feld_pk]: the rows of the segment and of the
\* trip's timing group.
ExactCandidates(sel_fzt_felds, fgr_nr) ==
    Select(sel_fzt_felds, LAMBDA x : x.fgr_nr = fgr_nr)

\* sel_fzt_felds_by_relaxed_pk[...]: the rows of the segment.
RelaxedCandidates(sel_fzt_felds) == sel_fzt_felds

\* sel_fzt_feld = [sel_fzt_feld[0]]
FirstCandidate(candidates) == <<candidates[1]>>

\* The driving duration of the segment, or the error the lookup raises.
ResolveSelFztFeld(sel_fzt_felds, fgr_nr) ==
    LET exact == ExactCandidates(sel_fzt_felds, fgr_nr)
        relaxed == RelaxedCandidates(sel_fzt_felds)
    IN  IF exact = <<>> /\ relaxed = <<>>
        THEN [error |-> "KeyError", sel_fzt |-> -1]
        ELSE LET sel_fzt_feld == IF exact # <<>> THEN exact ELSE FirstCandidate(relaxed)
                 durations == [n \in 1..Len(sel_fzt_feld) |-> sel_fzt_feld[n].sel_fzt]
             IN  IF Len(sel_fzt_feld) # 1
                 THEN IF Cardinality({durations[n] : n \in 1..Len(durations)}) # 1
                      THEN [error |-> "ValueError", sel_fzt |-> -1]
                      ELSE [error |-> "", sel_fzt |-> durations[1]]
                 ELSE [error |-> "", sel_fzt |-> sel_fzt_feld[1].sel_fzt]

\* The loop over this_route_rec_sels that fills this_route_sel_fzt_felds.
ResolveDriving ==
    /\ lkp_pc = "driving"
    /\ LET found == ResolveSelFztFeld(lkp_sel_fzt_felds, rec_frt_of_trip.fgr_nr)
       IN  /\ lkp_pc' = IF found.error = "" THEN "dwell" ELSE "raised"
           /\ lkp_error' = found.error
           /\ lkp_driving' = found.sel_fzt
    /\ UNCHANGED <<lkp_sel_fzt_felds, lkp_rec_frt_hzts, lkp_ort_hztfs, lkp_dwell>>
    /\ UNCHANGED exceptLkp

\* this_trip_rec_frt_hzts, then the rows of that trip at the place.
StationRecFrtHzts(rec_frt_hzts, frt_fid, station_pk) ==
    Select(Select(rec_frt_hzts, LAMBDA x : x.frt_fid = frt_fid),
           LAMBDA x : x.position_key = station_pk)

\* [x for x in ort_hztfs if x.position_key == next_station_pk]
StationOrtHztfs(ort_hztfs, station_pk) ==
    Select(ort_hztfs, LAMBDA x : x.position_key = station_pk)

\* The dwell duration at one place of the trip.
DwellDuration(rec_frt_hzts, ort_hztfs, frt, station_pk) ==
    LET station_rec_frt_hzts == StationRecFrtHzts(rec_frt_hzts, frt.frt_fid, station_pk)
        station_ort_hztfs == StationOrtHztfs(ort_hztfs, station_pk)
    IN  IF Len(station_rec_frt_hzts) = 1 THEN station_rec_frt_hzts[1].frt_hzt_zeit
        ELSE IF Len(station_ort_hztfs) = 1 THEN station_ort_hztfs[1].hp_hzt
        ELSE 0

\* The dwell at the destination of the segment.
ResolveDwell ==
    /\ lkp_pc = "dwell"
    /\ lkp_dwell' = DwellDuration(lkp_rec_frt_hzts, lkp_ort_hztfs, rec_frt_of_trip, next_station_pk)
    /\ lkp_pc' = "done"
    /\ UNCHANGED <<lkp_sel_fzt_felds, lkp_rec_frt_hzts, lkp_ort_hztfs, lkp_driving, lkp_error>>
    /\ UNCHANGED exceptLkp

LkpNext == CheckDwellTables \/ ResolveDriving \/ ResolveDwell

Durations(candidates) == {candidates[n].sel_fzt : n \in 1..Len(candidates)}

\* The lookup under the exact key found nothing and the relaxed key has rows.
FellBack ==
    /\ lkp_pc \in {"dwell", "done", "raised"} /\ lkp_error # "AssertionError"
    /\ ExactCandidates(lkp_sel_fzt_felds, rec_frt_of_trip.fgr_nr) = <<>>
    /\ RelaxedCandidates(lkp_sel_fzt_felds) # <<>>

\* C26: when the lookup falls back to the relaxed key, the first candidate's
\* duration is used only if all candidates under the relaxed key have the
\* same duration; if they disagree the import fails with an error.
C26_RelaxedCandidatesAgree ==
    FellBack =>
        IF Cardinality(Durations(RelaxedCandidates(lkp_sel_fzt_felds))) = 1
        THEN lkp_error = "" /\ lkp_driving = lkp_sel_fzt_felds[1].sel_fzt
        ELSE lkp_pc = "raised" /\ lkp_error = "ValueError"

\* What the lookup does after falling back: the first candidate is taken, the
\* others are not looked at.
C26_FirstRelaxedCandidateTaken ==
    FellBack => lkp_error = "" /\ lkp_driving = lkp_sel_fzt_felds[1].sel_fzt

\* Several rows under the exact key: they must agree.
C26_ExactCandidatesAgree ==
    (lkp_pc \in {"dwell", "done", "raised"} /\ lkp_error # "AssertionError"
        /\ ExactCandidates(lkp_sel_fzt_felds, rec_frt_of_trip.fgr_nr) # <<>>)
    => IF Cardinality(Durations(ExactCandidates(lkp_sel_fzt_felds, rec_frt_of_trip.fgr_nr))) = 1
       THEN lkp_error = "" /\ lkp_driving \in Durations(lkp_sel_fzt_felds)
       ELSE lkp_pc = "raised" /\ lkp_error = "ValueError"

\* The entries the claim speaks of: those of this trip, and those of this
\* trip's timing group, at the place.
TripSpecific ==
    StationRecFrtHzts(lkp_rec_frt_hzts, rec_frt_of_trip.frt_fid, next_station_pk)
TimingGroupSpecific ==
    Select(StationOrtHztfs(lkp_ort_hztfs, next_station_pk),
           LAMBDA x : x.fgr_nr = rec_frt_of_trip.fgr_nr)

\* C27: the dwell used at a place of a trip is the trip-specific dwell
\* (REC_FRT_HZT entry of that trip and place) when one is present, otherwise
\* the timing-group dwell (ORT_HZTF entry of the trip's timing group and that
\* place) when one is present, otherwise zero.
C27_DwellPrecedence ==
    lkp_pc = "done" =>
        IF TripSpecific # <<>> THEN lkp_dwell = TripSpecific[1].frt_hzt_zeit
        ELSE IF TimingGroupSpecific # <<>> THEN lkp_dwell = TimingGroupSpecific[1].hp_hzt
        ELSE lkp_dwell = 0

\* What the code computes: an entry counts only if it is the only one at the
\* place, and the ORT_HZTF rows of every timing group count.
C27_SingleEntryAtPlace ==
    lkp_pc = "done" =>
        IF Len(TripSpecific) = 1 THEN lkp_dwell = TripSpecific[1].frt_hzt_zeit
        ELSE IF Len(StationOrtHztfs(lkp_ort_hztfs, next_station_pk)) = 1
        THEN lkp_dwell = StationOrtHztfs(lkp_ort_hztfs, next_station_pk)[1].hp_hzt
        ELSE lkp_dwell = 0

(***************************************************************************)
(* The GTFS import with and without always_flush (gtfs.py)                 *)
(*                                                                         *)
(* The import of one prepared feed is run twice side by side, once with    *)
(* always_flush = TRUE and once with FALSE: the variables of the session   *)
(* are functions of that flag.  Of the objects the import adds, the        *)
(* scenario, the vehicle type, the rotations and the trips are followed;   *)
(* stations, lines, routes and stop times are added like the scenario.     *)
(* An object is [type, id, rotation], the last being the id of the         *)
(* rotation of a trip (of the rotation itself for a rotation).             *)
(***************************************************************************)
MaxGtfsTrips == 2

GtfsTripIds == <<"t1", "t2", "t3", "t4">>
GtfsDates == <<"20240101", "20240102">>
NaN == "NaN"

Object(type, id, rotation) == [type |-> type, id |-> id, rotation |-> rotation]
NoId == <<"", "", "">>
ScenarioObject == Object("Scenario", NoId, NoId)
VehicleTypeObject == Object("VehicleType", <<"default_bus", "", "">>, NoId)
RotationObject(id) == Object("Rotation", id, id)
TripObject(trip_id, date_str, rotation) == Object("Trip", <<trip_id, date_str, "">>, rotation.id)

\* A Session: the pending objects, the persistent ones (flushed, in the
\* transaction) and the persistent ones marked for deletion.
NewSession == [new |-> {}, persistent |-> {}, deleted |-> {}]

session_flush(s) ==
    [new |-> {}, persistent |-> (s.persistent \cup s.new) \ s.deleted, deleted |-> {}]

\* session.add(obj), followed by "if always_flush: session.flush()".
session_add(s, objects, always_flush) ==
    LET added == [s EXCEPT !.new = @ \cup objects]
    IN  IF always_flush THEN session_flush(added) ELSE added

\* inspect(obj).persistent
persistent(s, obj) == obj \in s.persistent

\* session.delete(obj) of a persistent object, then the optional flush.
session_delete(s, obj, always_flush) ==
    LET marked == [s EXCEPT !.deleted = @ \cup {obj}]
    IN  IF always_flush THEN session_flush(marked) ELSE marked

\* session.commit(): what the database holds afterwards.
session_commit(s) == session_flush(s).persistent

\* rotation.trips
TripsOf(s, rotation) ==
    {o \in s.new \cup s.persistent : o.type = "Trip" /\ o.rotation = rotation.id}

\* The key of the rotation of a trips.txt row: f"{service_id}_{block_id}" if
\* the block is given, f"{service_id}_default" otherwise; the date is empty
\* in the key of a template.
RotationKey(service_id, block_id, date_str) ==
    <<service_id, IF block_id # NaN THEN block_id ELSE "default", date_str>>

\* The groups of trips_df.groupby: rows without block_id form no group when
\* the rows are grouped by service and block.
RotationGroups(trips_df, block_column) ==
    IF block_column
    THEN {RotationKey(trips_df[n].service_id, trips_df[n].block_id, "") :
              n \in {m \in 1..Len(trips_df) : trips_df[m].block_id # NaN}}
    ELSE {RotationKey(trips_df[n].service_id, NaN, "") : n \in 1..Len(trips_df)}

\* template_rotations_delete_later
TemplateRotations(trips_df, block_column) ==
    {RotationObject(key) : key \in RotationGroups(trips_df, block_column)}

Flags == BOOLEAN

GtfInit ==
    /\ gtf_block_column \in BOOLEAN
    /\ \E len \in 0..MaxGtfsTrips :
           gtf_trips_df \in [1..len -> [service_id : {"weekday"}, block_id : {"b1", NaN},
                                        dates : {<<>>, <<GtfsDates[1]>>, GtfsDates}]]
    /\ ~gtf_block_column => \A n \in 1..Len(gtf_trips_df) : gtf_trips_df[n].block_id = NaN
    /\ gtf_pc = "start"
    /\ gtf_next = [trip |-> 1, date |-> 1]
    /\ gtf_rotations_dict = [f \in Flags |-> {}]
    /\ gtf_session = [f \in Flags |-> NewSession]
    /\ gtf_database = [f \in Flags |-> {}]

\* Steps 1 to 4: the scenario and the default vehicle type are added.
GtfsAddScenario ==
    /\ gtf_pc = "start"
    /\ gtf_session' = [f \in Flags |->
           session_add(session_add(gtf_session[f], {ScenarioObject}, f), {VehicleTypeObject}, f)]
    /\ gtf_pc' = "rotations"
    /\ UNCHANGED <<gtf_trips_df, gtf_block_column, gtf_next, gtf_rotations_dict, gtf_database>>
    /\ UNCHANGED exceptGtf

\* Step 5: one template rotation per group.
GtfsAddTemplateRotations ==
    /\ gtf_pc = "rotations"
    /\ gtf_rotations_dict' = [f \in Flags |-> TemplateRotations(gtf_trips_df, gtf_block_column)]
    /\ gtf_session' = [f \in Flags |->
           session_add(gtf_session[f], TemplateRotations(gtf_trips_df, gtf_block_column), f)]
    /\ gtf_pc' = "trips"
    /\ gtf_next' = [trip |-> 1, date |-> 1]
    /\ UNCHANGED <<gtf_trips_df, gtf_block_column, gtf_database>>
    /\ UNCHANGED exceptGtf

\* The rotation of a trip instance: the one of that day if it exists, else a
\* copy of the template for that day, else a new single-trip rotation.
RotationForDay(rotations_dict, trip_id, row, date_str) ==
    LET with_day == RotationObject(RotationKey(row.service_id, row.block_id, date_str))
        without_day == RotationObject(RotationKey(row.service_id, row.block_id, ""))
    IN  IF with_day \in rotations_dict THEN [rotation |-> with_day, created |-> FALSE]
        ELSE IF without_day \in rotations_dict THEN [rotation |-> with_day, created |-> TRUE]
        ELSE [rotation |-> RotationObject(<<"TEMPLATE DUMMY", trip_id, date_str>>),
              created |-> TRUE]

\* Step 6, one pass of the loop over the dates of one row of trips_df: the
\* rotation is found or created and the trip instance is added.  A row
\* that runs on none of the dates is skipped.
GtfsAddTrip ==
    /\ gtf_pc = "trips"
    /\ gtf_next.trip <= Len(gtf_trips_df)
    /\ LET row == gtf_trips_df[gtf_next.trip]
           trip_id == GtfsTripIds[gtf_next.trip]
       IN  IF row.dates = <<>>
           THEN /\ gtf_next' = [trip |-> gtf_next.trip + 1, date |-> 1]
                /\ UNCHANGED <<gtf_rotations_dict, gtf_session>>
           ELSE LET date_str == row.dates[gtf_next.date]
                    found(f) == RotationForDay(gtf_rotations_dict[f], trip_id, row, date_str)
                    with_rotation(f) ==
                        IF found(f).created
                        THEN session_add(gtf_session[f], {found(f).rotation}, f)
                        ELSE gtf_session[f]
                IN  /\ gtf_rotations_dict' = [f \in Flags |->
                           gtf_rotations_dict[f] \cup {found(f).rotation}]
                    /\ gtf_session' = [f \in Flags |->
                           session_add(with_rotation(f),
                                       {TripObject(trip_id, date_str, found(f).rotation)}, f)]
                    /\ gtf_next' = IF gtf_next.date < Len(row.dates)
                                   THEN [gtf_next EXCEPT !.date = @ + 1]
                                   ELSE [trip |-> gtf_next.trip + 1, date |-> 1]
    /\ UNCHANGED <<gtf_trips_df, gtf_block_column, gtf_pc, gtf_database>>
    /\ UNCHANGED exceptGtf

\* Steps 7 and 8 add stop times and route-station associations only.
GtfsTripsDone ==
    /\ gtf_pc = "trips"
    /\ gtf_next.trip > Len(gtf_trips_df)
    /\ gtf_pc' = "cleanup"
    /\ UNCHANGED <<gtf_trips_df, gtf_block_column, gtf_next, gtf_rotations_dict, gtf_session,
                   gtf_database>>
    /\ UNCHANGED exceptGtf

\* The loop "Remove unused template rotations": a template without trips
\* is deleted if it is persistent.
RECURSIVE RemoveUnused(_, _, _)
RemoveUnused(s, templates, always_flush) ==
    IF templates = {} THEN s
    ELSE LET rotation == CHOOSE r \in templates : TRUE
             after == IF TripsOf(s, rotation) = {} /\ persistent(s, rotation)
                      THEN session_delete(s, rotation, always_flush)
                      ELSE s
         IN  RemoveUnused(after, templates \ {rotation}, always_flush)

GtfsRemoveUnusedTemplates ==
    /\ gtf_pc = "cleanup"
    /\ gtf_session' = [f \in Flags |->
           RemoveUnused(gtf_session[f], TemplateRotations(gtf_trips_df, gtf_block_column), f)]
    /\ gtf_pc' = "commit"
    /\ UNCHANGED <<gtf_trips_df, gtf_block_column, gtf_next, gtf_rotations_dict, gtf_database>>
    /\ UNCHANGED exceptGtf

GtfsSessionCommit ==
    /\ gtf_pc = "commit"
    /\ gtf_database' = [f \in Flags |-> session_commit(gtf_session[f])]
    /\ gtf_session' = [f \in Flags |-> NewSession]
    /\ gtf_pc' = "committed"
    /\ UNCHANGED <<gtf_trips_df, gtf_block_column, gtf_next, gtf_rotations_dict>>
    /\ UNCHANGED exceptGtf

GtfNext ==
    \/ GtfsAddScenario
    \/ GtfsAddTemplateRotations
    \/ GtfsAddTrip
    \/ GtfsTripsDone
    \/ GtfsRemoveUnusedTemplates
    \/ GtfsSessionCommit

\* The committed rotations without a committed trip.
EmptyRotations(database) ==
    {r \in database : r.type = "Rotation"
                      /\ ~\E t \in database : t.type = "Trip" /\ t.rotation = r.id}

\* C29: for the same prepared data the import commits the same objects with
\* always_flush True and False, and a template rotation that ends up with no
\* trip is in the committed database in neither case.
C29_SameEntitiesWithAndWithoutFlush ==
    gtf_pc = "committed" =>
        /\ gtf_database[TRUE] = gtf_database[FALSE]
        /\ \A f \in Flags :
               TemplateRotations(gtf_trips_df, gtf_block_column) \cap EmptyRotations(gtf_database[f]) = {}

\* What holds instead: with always_flush the empty templates are deleted,
\* without it they are pending at the cleanup and are committed with the rest.
C29_TemplatesKeptWithoutFlush ==
    gtf_pc = "committed" =>
        /\ EmptyRotations(gtf_database[TRUE]) = {}
        /\ gtf_database[FALSE]
               = gtf_database[TRUE] \cup TemplateRotations(gtf_trips_df, gtf_block_column)

(***************************************************************************)
(* Specifications                                                          *)
(***************************************************************************)
IdleVal ==
    /\ zip_opens = TRUE /\ zip_entries = <<>> /\ vpc = "idle" /\ prepare_result = <<>>
    /\ all_tables_pkl = <<>> /\ decoded = {}

IdleIng ==
    /\ rec_umlauf = {} /\ firmenkalender = <<>> /\ rec_frt = <<>>
    /\ db0 = {} /\ db = {} /\ session = {} /\ deleted = {}
    /\ ipc = "idle" /\ frt_idx = 0 /\ rotations_by_vdv_pk_and_date = <<>>
    /\ error = None

IdleTrip ==
    /\ pipeline = "idle" /\ local_midnight = 0 /\ frt_start = 0
    /\ sel_fzt = <<>> /\ hzt = <<>> /\ tpc = "idle" /\ trip = NoTrip
    /\ built_stop_times = <<>> /\ stop_times = <<>>

IdleScn ==
    /\ ingester = "idle" /\ scn_db0 = {} /\ scn_db = {} /\ scn_pc = "idle"
    /\ scn_scenario = None

IdleHdr ==
    /\ hdr_lines = <<>> /\ hdr_pc = "idle" /\ hdr_result = <<>>

IdleDec ==
    /\ dec_frm = <<>> /\ dec_rows = <<>> /\ dec_pc = "idle" /\ dec_records = <<>>

IdleRte ==
    /\ rte_pipeline = "idle" /\ rte_routes = <<>> /\ rte_candidate = <<>>
    /\ rte_ref = <<>> /\ rte_pc = "idle"

IdlePrg ==
    /\ prg_ingester = "Dummy" /\ prg_callback = FALSE
    /\ prg_params = [depot_count |-> 1, line_count |-> 1, rotation_per_line |-> 1, txt |-> TRUE, total_trips |-> 0]
    /\ prg_run = "prepare" /\ prg_pc = "start"
    /\ prg_loop = [i |-> 0, j |-> 0, k |-> 0]
    /\ prg_gtfs = [stage |-> 0, trip_idx |-> 0, current_progress |-> 0]
    /\ prg_reported = <<>> /\ prg_scenarios = {} /\ prg_scenario = 0
    /\ prg_session = {} /\ prg_db = [before |-> {}, now |-> {}]

IdleVer ==
    /\ ver_dict_list = <<>> /\ ver_today = 1 /\ ver_pc = "start" /\ ver_objects = <<>>

IdleLkp ==
    /\ lkp_sel_fzt_felds = <<>> /\ lkp_rec_frt_hzts = <<>> /\ lkp_ort_hztfs = <<>>
    /\ lkp_pc = "start" /\ lkp_driving = -1 /\ lkp_dwell = -1 /\ lkp_error = ""

IdleGtf ==
    /\ gtf_trips_df = <<>> /\ gtf_block_column = FALSE /\ gtf_pc = "start"
    /\ gtf_next = [trip |-> 1, date |-> 1]
    /\ gtf_rotations_dict = <<>> /\ gtf_session = <<>> /\ gtf_database = <<>>

InitTrip == TripInit /\ IdleVal /\ IdleIng /\ IdleScn /\ IdleHdr /\ IdleDec /\ IdleRte /\ IdlePrg /\ IdleVer /\ IdleLkp /\ IdleGtf

SpecTrip == InitTrip /\ [][TripNext]_vars

InitValidate == ValInit /\ IdleTrip /\ IdleIng /\ IdleScn /\ IdleHdr /\ IdleDec /\ IdleRte /\ IdlePrg /\ IdleVer /\ IdleLkp /\ IdleGtf

SpecValidate == InitValidate /\ [][ValNext]_vars

InitIngest == IngInit /\ IdleTrip /\ IdleVal /\ IdleScn /\ IdleHdr /\ IdleDec /\ IdleRte /\ IdlePrg /\ IdleVer /\ IdleLkp /\ IdleGtf

SpecIngest == InitIngest /\ [][IngNext]_vars

InitScenario == ScnInit /\ IdleTrip /\ IdleVal /\ IdleIng /\ IdleHdr /\ IdleDec /\ IdleRte /\ IdlePrg /\ IdleVer /\ IdleLkp /\ IdleGtf

SpecScenario == InitScenario /\ [][ScnNext]_vars

InitPrepare == PrepInit /\ IdleTrip /\ IdleIng /\ IdleScn /\ IdleHdr /\ IdleDec /\ IdleRte /\ IdlePrg /\ IdleVer /\ IdleLkp /\ IdleGtf

SpecPrepare == InitPrepare /\ [][ValNext]_vars

InitHeader == HdrInit /\ IdleTrip /\ IdleVal /\ IdleIng /\ IdleScn /\ IdleDec /\ IdleRte /\ IdlePrg /\ IdleVer /\ IdleLkp /\ IdleGtf

SpecHeader == InitHeader /\ [][HdrNext]_vars

InitDecode == DecInit /\ IdleTrip /\ IdleVal /\ IdleIng /\ IdleScn /\ IdleHdr /\ IdleRte /\ IdlePrg /\ IdleVer /\ IdleLkp /\ IdleGtf

SpecDecode == InitDecode /\ [][DecNext]_vars

InitRoute == RteInit /\ IdleTrip /\ IdleVal /\ IdleIng /\ IdleScn /\ IdleHdr /\ IdleDec /\ IdlePrg /\ IdleVer /\ IdleLkp /\ IdleGtf

SpecRoute == InitRoute /\ [][RteNext]_vars

InitProgress == PrgInit /\ IdleTrip /\ IdleVal /\ IdleIng /\ IdleScn /\ IdleHdr /\ IdleDec /\ IdleRte /\ IdleVer /\ IdleLkp /\ IdleGtf

SpecProgress == InitProgress /\ [][PrgNext]_vars

InitVersion == VerInit /\ IdleTrip /\ IdleVal /\ IdleIng /\ IdleScn /\ IdleHdr /\ IdleDec /\ IdleRte /\ IdlePrg /\ IdleLkp /\ IdleGtf

SpecVersion == InitVersion /\ [][VerNext]_vars

InitDurations == LkpInit /\ IdleTrip /\ IdleVal /\ IdleIng /\ IdleScn /\ IdleHdr /\ IdleDec /\ IdleRte /\ IdlePrg /\ IdleVer /\ IdleGtf

SpecDurations == InitDurations /\ [][LkpNext]_vars

InitFlush == GtfInit /\ IdleTrip /\ IdleVal /\ IdleIng /\ IdleScn /\ IdleHdr /\ IdleDec /\ IdleRte /\ IdlePrg /\ IdleVer /\ IdleLkp

SpecFlush == InitFlush /\ [][GtfNext]_vars
====
